---- MODULE Spec2Model ----
(***************************************************************************)
(* Model of the outage-monitor bot: the retry executor (withRetry), the    *)
(* state store (loadState / saveState and the operations built on them),   *)
(* the notification dispatcher (sendTelegramMessage,                       *)
(* sendMessageToAllSubscribers, sendErrorNotification), the orchestrator   *)
(* (checkAndNotify, forceNotify) and the process bootstrap (main, the cron *)
(* tick callback, the /start and /stop command handlers).                  *)
(*                                                                         *)
(* Every async function is cut at its await points: one action per         *)
(* continuation, so other cycles and handlers can run in between, as the   *)
(* Node event loop allows.                                                 *)
(***************************************************************************)
EXTENDS Integers, Sequences, FiniteSets, TLC

VARIABLES
    config,          \* validated environment: TELEGRAM_CHAT_ID
    file,            \* ./.state/state.json
    now,             \* wall clock
    mainPc,          \* position of main()
    pollingEnabled,  \* telegram provider: pollingEnabled
    scheduledTask,   \* index.ts: scheduledTask is set
    cyc,             \* the checkAndNotify / forceNotify invocations
    cmds,            \* the /start and /stop handler invocations
    rt,              \* one withRetry call studied on its own
    trace            \* what that withRetry call did, in order

vars == <<config, file, now, mainPc, pollingEnabled, scheduledTask, cyc, cmds, rt, trace>>

----------------------------------------------------------------------------
(* Bounds *)

MaxSlots == 2         \* cycles the model follows: in flight or last finished
MaxCmds == 2          \* command handlers the model follows
MaxInFlight == 2      \* cycles and command handlers in flight at once
MaxClock == 2         \* last value of the wall clock
MaxAttempts == 4      \* largest `attempts` handed to the studied withRetry
RETRY_ATTEMPTS == 2   \* config.RETRY_ATTEMPTS of the modelled deployment (>= 1)
HashBits == 16        \* width of the modelled digest
MaxOps == 2           \* state-store calls made one after the other
MaxElems == 2         \* elements of an upstream JSON array
MaxRows == 3          \* rows of an upstream HTML table

ChatIds == {1, -2}                 \* chats that send commands
ConfigChatIds == {<<"-", "2">>}    \* TELEGRAM_CHAT_ID values
FetchErrors == {"HOE_API_ERROR"}
RetryErrors == {"E1", "E2"}         \* Error objects fn() rejects with
NonErrors == {"boom"}              \* rejection reasons that are no Error
DelayChoices == {100, 5000}

Null == -1            \* JS null (hash, check time)
NaN == -1000000       \* JS NaN: equal to no chat id
NoError == "none"     \* no exception
Undefined == "undefined"

----------------------------------------------------------------------------
(* Generic helpers *)

Range(s) == {s[i] : i \in DOMAIN s}

\* Array.prototype.includes
Includes(s, x) == \E i \in DOMAIN s : s[i] = x

\* Array.prototype.filter((id) => id !== x)
RECURSIVE Without(_, _)
Without(s, x) ==
    IF s = <<>> THEN <<>>
    ELSE IF Head(s) = x THEN Without(Tail(s), x)
         ELSE <<Head(s)>> \o Without(Tail(s), x)

\* number of positions of s holding x
RECURSIVE Count(_, _)
Count(s, x) ==
    IF s = <<>> THEN 0
    ELSE (IF Head(s) = x THEN 1 ELSE 0) + Count(Tail(s), x)

RECURSIVE Pow2(_)
Pow2(n) == IF n = 0 THEN 1 ELSE 2 * Pow2(n - 1)

\* duplicate-free sequences over a set
RECURSIVE NoDupSeqs(_)
NoDupSeqs(S) ==
    {<<>>} \cup UNION {{<<x>> \o t : t \in NoDupSeqs(S \ {x})} : x \in S}

----------------------------------------------------------------------------
(* utils/retry: withRetry *)

\* The state of one withRetry call: the loop variable, where the call is
\* suspended ("fn": awaiting fn(), "delay": awaiting delay(delayMs)) or how
\* it ended ("returned", "thrown"), and lastError.
WithRetryStart(attempts) ==
    IF 1 <= attempts
    THEN [attempt |-> 1, pc |-> "fn", lastError |-> Undefined]
    ELSE [attempt |-> 1, pc |-> "thrown", lastError |-> Undefined]

\* fn() fulfilled: return await fn()
FnResolved(r) == [r EXCEPT !.pc = "returned"]

\* the catch block's test `attempt < attempts`: whether this failure is
\* followed by onRetry and delay (a faulty variant: also the final failure)
RetriesAfterAlways(attempt, attempts) == TRUE

RetriesAfter(attempt, attempts) == attempt < attempts

\* `error instanceof Error ? error : new Error(String(error))`
AsError(reason) ==
    IF reason \in NonErrors THEN "Error: " \o reason ELSE reason

\* a faulty variant of FnRejected that keeps the first error it saw
FnRejectedFirst(r, attempts, err) ==
    LET e == IF r.lastError = Undefined THEN AsError(err) ELSE r.lastError IN
    IF RetriesAfter(r.attempt, attempts)
    THEN [r EXCEPT !.lastError = e, !.pc = "delay"]
    ELSE [r EXCEPT !.lastError = e, !.attempt = @ + 1, !.pc = "thrown"]

\* fn() rejected with err: the catch block, up to its await of delay() or,
\* on the last pass, the loop exit and `throw lastError`
FnRejected(r, attempts, err) ==
    IF RetriesAfter(r.attempt, attempts)
    THEN [r EXCEPT !.lastError = AsError(err), !.pc = "delay"]
    ELSE [r EXCEPT !.lastError = AsError(err), !.attempt = @ + 1,
                   !.pc = "thrown"]

\* a faulty variant of DelayElapsed: the loop neither counts nor tests
DelayElapsedNoCount(r, attempts) == [r EXCEPT !.pc = "fn"]

\* delay(delayMs) elapsed: attempt++, the loop test, the next fn() invoked
DelayElapsed(r, attempts) ==
    IF r.attempt + 1 <= attempts
    THEN [r EXCEPT !.attempt = @ + 1, !.pc = "fn"]
    ELSE [r EXCEPT !.attempt = @ + 1, !.pc = "thrown"]

Settled(r) == r.pc \in {"returned", "thrown"}

\* withRetry run to its end on the outcomes outs[1], outs[2], ... of the
\* successive fn() invocations (NoError: fulfilled, otherwise the rejection)
RECURSIVE RunWithRetry(_, _, _)
RunWithRetry(r, attempts, outs) ==
    IF Settled(r) THEN r
    ELSE IF r.pc = "delay"
         THEN RunWithRetry(DelayElapsed(r, attempts), attempts, outs)
    ELSE IF outs[r.attempt] = NoError THEN FnResolved(r)
    ELSE RunWithRetry(FnRejected(r, attempts, outs[r.attempt]), attempts, outs)

----------------------------------------------------------------------------
(* One withRetry(fn, {attempts, delayMs, onRetry}) call on its own *)

RetryValues == {"v1", "v2"}

Ev(ev, attempt, error, value, ms) ==
    [ev |-> ev, attempt |-> attempt, error |-> error, value |-> value, ms |-> ms]

IdleRetry ==
    [active |-> FALSE, attempts |-> 0, delayMs |-> 0, hasOnRetry |-> FALSE,
     value |-> Undefined, r |-> WithRetryStart(0)]

\* withRetry is called: options merged over DEFAULT_OPTIONS, first fn() invoked
WithRetryCall(attempts, delayMs, hasOnRetry) ==
    [active |-> TRUE, attempts |-> attempts, delayMs |-> delayMs,
     hasOnRetry |-> hasOnRetry, value |-> Undefined,
     r |-> WithRetryStart(attempts)]

RetryFnResolves(v) ==
    /\ rt.active /\ rt.r.pc = "fn"
    /\ rt' = [rt EXCEPT !.r = FnResolved(@), !.value = v]
    /\ trace' = Append(trace, Ev("resolved", rt.r.attempt, NoError, v, 0))
    /\ UNCHANGED <<config, file, now, mainPc, pollingEnabled, scheduledTask, cyc, cmds>>

RetryFnRejects(err) ==
    /\ rt.active /\ rt.r.pc = "fn"
    /\ rt' = [rt EXCEPT !.r = FnRejected(@, rt.attempts, err)]
    /\ trace' =
         Append(trace, Ev("rejected", rt.r.attempt, err, Undefined, 0))
         \o (IF RetriesAfter(rt.r.attempt, rt.attempts)
             THEN (IF rt.hasOnRetry
                   THEN <<Ev("onRetry", rt.r.attempt, rt'.r.lastError, Undefined, 0)>>
                   ELSE <<>>)
                  \o <<Ev("delay", rt.r.attempt, NoError, Undefined, rt.delayMs)>>
             ELSE <<>>)
    /\ UNCHANGED <<config, file, now, mainPc, pollingEnabled, scheduledTask, cyc, cmds>>

RetryDelayElapses ==
    /\ rt.active /\ rt.r.pc = "delay"
    /\ rt' = [rt EXCEPT !.r = DelayElapsed(@, rt.attempts)]
    /\ trace' = IF rt'.r.pc = "fn"
                THEN Append(trace, Ev("fn", rt'.r.attempt, NoError, Undefined, 0))
                ELSE trace
    /\ UNCHANGED <<config, file, now, mainPc, pollingEnabled, scheduledTask, cyc, cmds>>

NextRetry ==
    \/ \E v \in RetryValues : RetryFnResolves(v)
    \/ \E e \in RetryErrors \cup NonErrors : RetryFnRejects(e)
    \/ RetryDelayElapses

----------------------------------------------------------------------------
(* config/env and argv *)

DigitChars == <<"0", "1", "2", "3", "4", "5", "6", "7", "8", "9">>

IsDigit(ch) == \E i \in 1..10 : DigitChars[i] = ch

DigitVal(ch) == (CHOOSE i \in 1..10 : DigitChars[i] = ch) - 1

RECURSIVE SkipSpaces(_)
SkipSpaces(s) ==
    IF s # <<>> /\ Head(s) = " " THEN SkipSpaces(Tail(s)) ELSE s

\* value of the leading decimal digits of s, continuing from acc
RECURSIVE LeadingDigits(_, _)
LeadingDigits(s, acc) ==
    IF s # <<>> /\ IsDigit(Head(s))
    THEN LeadingDigits(Tail(s), 10 * acc + DigitVal(Head(s)))
    ELSE acc

\* parseInt(str, 10): leading white space, an optional sign, then digits up
\* to the first character that is not one; NaN when there is no digit
ParseInt(str) ==
    LET s == SkipSpaces(str)
        signed == s # <<>> /\ Head(s) \in {"-", "+"}
        body == IF signed THEN Tail(s) ELSE s
    IN  IF body = <<>> \/ ~IsDigit(Head(body)) THEN NaN
        ELSE IF signed /\ Head(s) = "-" THEN 0 - LeadingDigits(body, 0)
        ELSE LeadingDigits(body, 0)

----------------------------------------------------------------------------
(* services/shutdown.service and utils/hash *)

\* A ShutdownEvent; strings are numeric codes, 0 is the empty string.
\* Date strings: an odd code is a string Date cannot parse, an even code one
\* it can.
Event(id, type, dateStart, dateEnd, status) ==
    [id |-> id, type |-> type, dateStart |-> dateStart, dateEnd |-> dateEnd,
     status |-> status]

\* what fetchShutdownEvents can return for one upstream answer
Responses ==
    { <<>>,
      <<Event(1, 21, 31, 34, 41), Event(2, 22, 0, 33, 0)>> }

\* formatDateTime: 'Невідомо' for the empty string, the raw string when it
\* is not a date, the uk-UA rendering (code + 100) when it is
formatDateTime(dateStr) ==
    IF dateStr = 0 THEN 9
    ELSE IF dateStr % 2 = 1 THEN dateStr
    ELSE dateStr + 100

\* formatEvent: title, start, end, and the status line when status is truthy
\* (tokens 2, 3, 4, 5 are the fixed texts of the four lines)
formatEvent(event, index) ==
    <<2, index + 1, event.type,
      3, formatDateTime(event.dateStart),
      4, formatDateTime(event.dateEnd)>>
    \o (IF event.status # 0 THEN <<5, event.status>> ELSE <<>>)

RECURSIVE JoinEvents(_, _)
JoinEvents(events, index) ==
    IF index >= Len(events) THEN <<>>
    ELSE formatEvent(events[index + 1], index)
         \o (IF index + 1 < Len(events) THEN <<0>> ELSE <<>>)
         \o JoinEvents(events, index + 1)

\* formatShutdownMessage (token 1: the power-is-on sentence, 6: the header)
formatShutdownMessage(events) ==
    IF Len(events) = 0 THEN <<1>>
    ELSE <<6, Len(events)>> \o JoinEvents(events, 0)

\* createContentHash: a digest of HashBits bits over the message's tokens
RECURSIVE Digest(_, _)
Digest(content, h) ==
    IF content = <<>> THEN h
    ELSE Digest(Tail(content), (h * 31 + Head(content)) % Pow2(HashBits))

createContentHash(content) == Digest(content, 7)

hashesEqual(hash1, hash2) == hash1 = hash2

\* checkShutdownEvents, after the fetch returned events
CheckResult(events) ==
    [hasEvents |-> Len(events) > 0,
     events |-> events,
     formattedMessage |-> formatShutdownMessage(events),
     contentHash |-> createContentHash(formatShutdownMessage(events))]

\* getEventIds
RECURSIVE getEventIds(_)
getEventIds(events) ==
    IF events = <<>> THEN <<>>
    ELSE <<Head(events).id>> \o getEventIds(Tail(events))

----------------------------------------------------------------------------
(* repositories/state.repository *)

DEFAULT_STATE ==
    [lastMessageHash |-> Null, lastCheckTime |-> Null,
     lastEventIds |-> <<>>, subscribers |-> <<>>]

NoFile == [kind |-> "absent", data |-> DEFAULT_STATE]

JsonFile(state) == [kind |-> "json", data |-> state]

\* other things loadState can find at STATE_FILE_PATH: a file readFile
\* cannot read, text JSON.parse rejects, the JSON text `null`, and a JSON
\* object that lacks the fields named in `missing`
BrokenFile(kind) == [kind |-> kind, data |-> DEFAULT_STATE]
PartialFile(state, missing) ==
    [kind |-> "partial", data |-> state, missing |-> missing]

ReadError == "EACCES"          \* readFile rejected
SyntaxError == "SyntaxError"   \* JSON.parse threw
TypeError == "TypeError"       \* a property of null was read

\* `data.<field> ?? <default>`
FieldOr(f, field, default) ==
    IF field \in f.missing THEN default ELSE f.data[field]

\* the try block of loadState: what it throws (NoError: nothing) and what
\* it returns when it does not throw
TryLoad(f) ==
    CASE f.kind = "absent" -> [threw |-> NoError, state |-> DEFAULT_STATE]
      [] f.kind = "unreadable" -> [threw |-> ReadError, state |-> DEFAULT_STATE]
      [] f.kind = "invalid" -> [threw |-> SyntaxError, state |-> DEFAULT_STATE]
      [] f.kind = "null" -> [threw |-> TypeError, state |-> DEFAULT_STATE]
      [] f.kind = "partial" ->
           [threw |-> NoError,
            state |-> [lastMessageHash |-> FieldOr(f, "lastMessageHash", Null),
                       lastCheckTime |-> FieldOr(f, "lastCheckTime", Null),
                       lastEventIds |-> FieldOr(f, "lastEventIds", <<>>),
                       subscribers |-> FieldOr(f, "subscribers", <<>>)]]
      [] OTHER -> [threw |-> NoError, state |-> f.data]

\* a faulty variant of LoadCatch that throws the error on
LoadCatchRethrows(err) == err

\* the catch block of loadState: it logs and returns DEFAULT_STATE, so
\* loadState raises nothing
LoadCatch(err) == NoError

\* what loadState raises on f
LoadRaises(f) ==
    IF TryLoad(f).threw = NoError THEN NoError ELSE LoadCatch(TryLoad(f).threw)

\* loadState: DEFAULT_STATE when the file does not exist or the try block
\* threw, else its content
LoadState(f) ==
    IF TryLoad(f).threw = NoError THEN TryLoad(f).state ELSE DEFAULT_STATE

\* what can go wrong inside saveState
SaveFaults == {"none", "mkdir", "write"}

\* saveState: the catch block logs and throws the error on
SaveRaises(fault) == IF fault = "none" THEN NoError ELSE "EIO"

\* a faulty variant of SaveWrites: the text lands on disk before the error
SaveWritesAnyway(f, state, fault) == JsonFile(state)

\* the file after saveState(state) ran on file f
SaveWrites(f, state, fault) == IF fault = "none" THEN JsonFile(state) ELSE f

\* the snapshot updateLastMessageHash hands to saveState
WithHash(state, hash, time) ==
    [state EXCEPT !.lastMessageHash = hash, !.lastCheckTime = time]

\* a faulty variant of WithSubscriber that puts the new chat first
WithSubscriberFirst(state, chatId) ==
    [state EXCEPT !.subscribers = <<chatId>> \o @]

\* the snapshot addSubscriber hands to saveState
WithSubscriber(state, chatId) ==
    [state EXCEPT !.subscribers = Append(@, chatId)]

\* a faulty variant of WithoutSubscriber that forgets `...state`
WithoutSubscriberOnly(state, chatId) ==
    [DEFAULT_STATE EXCEPT !.subscribers = Without(state.subscribers, chatId)]

\* the snapshot removeSubscriber hands to saveState
WithoutSubscriber(state, chatId) ==
    [state EXCEPT !.subscribers = Without(@, chatId)]

\* what an earlier run of the program can have left on disk
StoredStates ==
    {NoFile} \cup
    { JsonFile([lastMessageHash |-> h,
                lastCheckTime |-> IF h = Null THEN Null ELSE 0,
                lastEventIds |-> <<>>,
                subscribers |-> subs]) :
        h \in {Null} \cup {CheckResult(r).contentHash : r \in Responses},
        subs \in NoDupSeqs(ChatIds) }

----------------------------------------------------------------------------
(* providers/telegram.provider: the dispatcher *)

SendError == "ETELEGRAM"    \* bot.sendMessage rejected
SaveError == "EIO"          \* mkdir or writeFile rejected

IdleR == [attempt |-> 0, pc |-> "idle", lastError |-> Undefined]

\* a faulty variant of AllRecipients that adds the default chat unconditionally
AllRecipientsAppend(subscribers, defaultChatId) ==
    Append(subscribers, defaultChatId)

\* allRecipients of sendMessageToAllSubscribers
AllRecipients(subscribers, defaultChatId) ==
    IF Includes(subscribers, defaultChatId)
    THEN subscribers
    ELSE Append(subscribers, defaultChatId)

\* a faulty variant of StartSends that sends to one recipient after the other
StartSendsInTurn(recipients) ==
    [i \in 1..Len(recipients) |->
        [chatId |-> recipients[i],
         r |-> IF i = 1 THEN WithRetryStart(RETRY_ATTEMPTS) ELSE IdleR]]

\* allRecipients.map((chatId) => sendTelegramMessage(message, chatId)):
\* every send is started, each inside its own withRetry
StartSends(recipients) ==
    [i \in 1..Len(recipients) |->
        [chatId |-> recipients[i], r |-> WithRetryStart(RETRY_ATTEMPTS)]]

\* Promise.allSettled has resolved
AllSettled(sends) == \A i \in DOMAIN sends : Settled(sends[i].r)

\* results.filter((r) => r.status === 'fulfilled').length
Successful(sends) == Cardinality({i \in DOMAIN sends : sends[i].r.pc = "returned"})

\* results.filter((r) => r.status === 'rejected').length
Failed(sends) == Cardinality({i \in DOMAIN sends : sends[i].r.pc = "thrown"})

\* a faulty variant of ErrorNotificationRaises without the try/catch
ErrorNotificationRethrows(r) == IF r.pc = "thrown" THEN r.lastError ELSE NoError

\* sendErrorNotification: what it raises once its sendTelegramMessage settled
\* (the catch logs the send error and returns)
ErrorNotificationRaises(r) == NoError

----------------------------------------------------------------------------
(* services/notification.service and index.ts: cycles *)

CycleIds == 1..MaxSlots
CmdIds == 1..MaxCmds

\* the invocations in flight moved to the first slots, in their order
Compacted(f, idle) ==
    LET live == SelectSeq(f, LAMBDA x : x.pc # "idle") IN
    [i \in DOMAIN f |-> IF i <= Len(live) THEN live[i] ELSE idle]

NewCycle ==
    [kind |-> "none", pc |-> "idle", seq |-> 0, fetch |-> IdleR,
     events |-> <<>>, hash |-> Null, lastHash |-> Null,
     subs |-> <<>>, sends |-> <<>>, broadcast |-> FALSE,
     successful |-> 0, failed |-> 0,
     state |-> DEFAULT_STATE, persisted |-> FALSE,
     error |-> NoError, errSend |-> IdleR, errTo |-> <<>>,
     errNotified |-> "none", undelivered |-> FALSE,
     outcome |-> "none", raised |-> NoError, caller |-> "none"]

Active(c) == cyc[c].pc \notin {"idle", "done"}
CmdActive(o) == cmds[o].pc \notin {"idle", "done"}

\* no cycle and no command handler is in flight
Quiet == (\A c \in CycleIds : ~Active(c)) /\ (\A o \in CmdIds : ~CmdActive(o))

InFlight ==
    Cardinality({c \in CycleIds : Active(c)})
    + Cardinality({o \in CmdIds : CmdActive(o)})

\* the slot the next invocation is followed in: the one whose cycle
\* finished longest ago
NextCycle(c) ==
    /\ ~Active(c)
    /\ \A d \in CycleIds \ {c} :
          ~Active(d) => \/ cyc[c].seq < cyc[d].seq
                        \/ cyc[c].seq = cyc[d].seq /\ c < d
NextCmd(o) ==
    cmds[o].pc = "idle" /\ \A d \in CmdIds : cmds[d].pc = "idle" => o <= d

\* the `if (lastHash && hashesEqual(lastHash, result.contentHash))` test
\* (a faulty variant: never skip)
ShouldSkipNever(lastHash, contentHash) == FALSE

ShouldSkip(lastHash, contentHash) ==
    lastHash # Null /\ hashesEqual(lastHash, contentHash)

\* where the cycle goes once checkShutdownEvents returned: checkAndNotify
\* reads the stored hash, forceNotify goes straight to the broadcast
\* (a faulty variant: forceNotify compares too)
AfterFetchCompare(kind) == "getHash"

AfterFetch(kind) == IF kind = "force" THEN "getSubs" ELSE "getHash"

\* the cron callback's try/catch around checkAndNotify (a faulty variant: no catch)
TickCallbackNoCatch(raised) ==
    IF raised = NoError THEN "returned" ELSE "unhandled"

TickCallback(raised) == IF raised = NoError THEN "returned" ELSE "caught"

\* main's try/catch around forceNotify
MainCatch(raised) == IF raised = NoError THEN "returned" ELSE "caught"

\* the invocation c ends (returns, or raises `raised`) and its caller resumes;
\* with h the model keeps the finished cycle in its slot until the slot is
\* used again, without h it forgets the cycle at once
Finish(c, rec, outcome, raised, h) ==
    /\ cyc' = IF ~h THEN Compacted([cyc EXCEPT ![c] = NewCycle], NewCycle)
              ELSE [cyc EXCEPT ![c] =
                 [rec EXCEPT !.pc = "done", !.outcome = outcome,
                             !.raised = raised,
                             !.caller = IF rec.kind = "force"
                                        THEN MainCatch(raised)
                                        ELSE TickCallback(raised),
                             !.fetch = IdleR, !.state = DEFAULT_STATE,
                             !.errSend = IdleR]]
    /\ mainPc' = IF rec.kind = "force" THEN "initBot" ELSE mainPc

\* the catch block of checkAndNotify / forceNotify is entered with `error`:
\* sendErrorNotification starts its sendTelegramMessage, which without a
\* chat id goes to config.TELEGRAM_CHAT_ID
Catch(c, rec, error) ==
    /\ cyc' = [cyc EXCEPT ![c] =
                 [rec EXCEPT !.pc = "errNotify", !.error = error,
                             !.errTo = config.TELEGRAM_CHAT_ID,
                             !.errSend = WithRetryStart(RETRY_ATTEMPTS)]]
    /\ mainPc' = mainPc

\* checkAndNotify() / forceNotify() is called: fetchShutdownEvents starts
\* (with h, seq orders the remembered cycles by their start: the latest
\* has MaxSlots)
StartCycle(c, kind, h) ==
    cyc' = [d \in CycleIds |->
              IF d = c
              THEN [NewCycle EXCEPT !.kind = kind, !.pc = "fetch",
                                    !.seq = IF h THEN MaxSlots ELSE 0,
                                    !.fetch = WithRetryStart(RETRY_ATTEMPTS)]
              ELSE [cyc[d] EXCEPT !.seq = IF h /\ @ > cyc[c].seq
                                          THEN @ - 1 ELSE @]]

\* the upstream answered and the answer was parsed into events
FetchResolves(c, events) ==
    /\ cyc[c].pc = "fetch" /\ cyc[c].fetch.pc = "fn"
    /\ cyc' = [cyc EXCEPT ![c] =
                 [@ EXCEPT !.fetch = FnResolved(@),
                           !.events = events,
                           !.hash = CheckResult(events).contentHash,
                           !.pc = AfterFetch(cyc[c].kind)]]
    /\ UNCHANGED <<config, file, now, mainPc, pollingEnabled, scheduledTask, cmds, rt, trace>>

\* a faulty variant of FetchRejects that takes an exhausted fetch for an
\* answer without events
FetchRejectsAsEmpty(c, err) ==
    /\ cyc[c].pc = "fetch" /\ cyc[c].fetch.pc = "fn"
    /\ LET r == FnRejected(cyc[c].fetch, RETRY_ATTEMPTS, err) IN
         cyc' = [cyc EXCEPT ![c] =
                   IF r.pc = "thrown"
                   THEN [@ EXCEPT !.fetch = r, !.events = <<>>,
                                  !.hash = CheckResult(<<>>).contentHash,
                                  !.pc = AfterFetch(cyc[c].kind)]
                   ELSE [@ EXCEPT !.fetch = r]]
    /\ UNCHANGED <<config, file, now, mainPc, pollingEnabled, scheduledTask, cmds, rt, trace>>

\* a fetch attempt failed (non-2xx status, network error, timeout abort)
FetchRejects(c, err) ==
    /\ cyc[c].pc = "fetch" /\ cyc[c].fetch.pc = "fn"
    /\ LET r == FnRejected(cyc[c].fetch, RETRY_ATTEMPTS, err) IN
         IF r.pc = "thrown"
         THEN Catch(c, [cyc[c] EXCEPT !.fetch = r], r.lastError)
         ELSE /\ cyc' = [cyc EXCEPT ![c].fetch = r]
              /\ mainPc' = mainPc
    /\ UNCHANGED <<config, file, now, pollingEnabled, scheduledTask, cmds, rt, trace>>

FetchDelayElapses(c) ==
    /\ cyc[c].pc = "fetch" /\ cyc[c].fetch.pc = "delay"
    /\ cyc' = [cyc EXCEPT ![c].fetch = DelayElapsed(@, RETRY_ATTEMPTS)]
    /\ UNCHANGED <<config, file, now, mainPc, pollingEnabled, scheduledTask, cmds, rt, trace>>

\* a faulty variant of AfterSkip that records the time of the check
AfterSkipStamped(f, time) ==
    JsonFile([LoadState(f) EXCEPT !.lastCheckTime = time])

\* the file after the skip path of checkAndNotify: it logs and returns
AfterSkip(f, time) == f

\* getLastMessageHash resolved, then the comparison
GetLastHash(c, h) ==
    /\ cyc[c].pc = "getHash"
    /\ LET lastHash == LoadState(file).lastMessageHash
           rec == [cyc[c] EXCEPT !.lastHash = lastHash] IN
         IF ShouldSkip(lastHash, cyc[c].hash)
         THEN /\ Finish(c, rec, "skipped", NoError, h)
              /\ file' = AfterSkip(file, now)
         ELSE /\ cyc' = [cyc EXCEPT ![c] = [rec EXCEPT !.pc = "getSubs"]]
              /\ mainPc' = mainPc
              /\ file' = file
    /\ UNCHANGED <<config, now, pollingEnabled, scheduledTask, cmds, rt, trace>>

\* sendMessageToAllSubscribers: getSubscribers resolved, the sends start
GetSubscribers(c) ==
    /\ cyc[c].pc = "getSubs"
    /\ LET subscribers == LoadState(file).subscribers
           allRecipients ==
               AllRecipients(subscribers, ParseInt(config.TELEGRAM_CHAT_ID))
       IN  cyc' = [cyc EXCEPT ![c] =
                     IF Len(allRecipients) = 0
                     THEN [@ EXCEPT !.lastHash = Null, !.subs = subscribers,
                                    !.pc = "persistLoad"]
                     ELSE [@ EXCEPT !.lastHash = Null, !.subs = subscribers,
                                    !.sends = StartSends(allRecipients),
                                    !.broadcast = TRUE,
                                    !.pc = "sending"]]
    /\ UNCHANGED <<config, file, now, mainPc, pollingEnabled, scheduledTask, cmds, rt, trace>>

\* bot.sendMessage to recipient i fulfilled
SendResolves(c, i) ==
    /\ cyc[c].pc = "sending" /\ i \in DOMAIN cyc[c].sends
    /\ cyc[c].sends[i].r.pc = "fn"
    /\ cyc' = [cyc EXCEPT ![c].sends[i].r = FnResolved(@)]
    /\ UNCHANGED <<config, file, now, mainPc, pollingEnabled, scheduledTask, cmds, rt, trace>>

\* bot.sendMessage to recipient i rejected
SendRejects(c, i) ==
    /\ cyc[c].pc = "sending" /\ i \in DOMAIN cyc[c].sends
    /\ cyc[c].sends[i].r.pc = "fn"
    /\ cyc' = [cyc EXCEPT ![c].sends[i].r = FnRejected(@, RETRY_ATTEMPTS, SendError)]
    /\ UNCHANGED <<config, file, now, mainPc, pollingEnabled, scheduledTask, cmds, rt, trace>>

SendDelayElapses(c, i) ==
    /\ cyc[c].pc = "sending" /\ i \in DOMAIN cyc[c].sends
    /\ cyc[c].sends[i].r.pc = "delay"
    /\ cyc' = [cyc EXCEPT ![c].sends[i].r = DelayElapsed(@, RETRY_ATTEMPTS)]
    /\ UNCHANGED <<config, file, now, mainPc, pollingEnabled, scheduledTask, cmds, rt, trace>>

\* a faulty variant of AfterBroadcast that gives up when nobody was reached
AfterBroadcastDelivered(successful, failed) ==
    IF successful = 0 /\ failed > 0 THEN "errNotify" ELSE "persistLoad"

\* where the cycle goes once sendMessageToAllSubscribers counted the
\* settled sends: it logs the counts and returns, whatever they are
AfterBroadcast(successful, failed) == "persistLoad"

\* whether the broadcast reached nobody (kept with the cycle to its end)
Undelivered(successful, failed) == successful = 0 /\ failed > 0

\* Promise.allSettled resolved: the counts are logged, the call returns and
\* updateLastMessageHash starts
BroadcastCompletes(c) ==
    /\ cyc[c].pc = "sending"
    /\ AllSettled(cyc[c].sends)
    /\ cyc' = [cyc EXCEPT ![c] =
                 [@ EXCEPT !.successful = Successful(cyc[c].sends),
                           !.failed = Failed(cyc[c].sends),
                           !.undelivered = Undelivered(Successful(cyc[c].sends),
                                                       Failed(cyc[c].sends)),
                           !.pc = AfterBroadcast(Successful(cyc[c].sends),
                                                 Failed(cyc[c].sends))]]
    /\ UNCHANGED <<config, file, now, mainPc, pollingEnabled, scheduledTask, cmds, rt, trace>>

\* sendMessageToAllSubscribers in one step, from getSubscribers resolving
\* to Promise.allSettled resolving: every send runs to its end on the
\* outcomes outs[i] of its attempts (the sends touch no shared state, so
\* nothing else can tell how they interleave; like the rest of the history,
\* `undelivered` is not kept here)
Broadcast(c, outs) ==
    /\ cyc[c].pc = "getSubs"
    /\ LET subscribers == LoadState(file).subscribers
           allRecipients ==
               AllRecipients(subscribers, ParseInt(config.TELEGRAM_CHAT_ID))
           started == StartSends(allRecipients)
           sends == [i \in DOMAIN started |->
                       [started[i] EXCEPT
                          !.r = RunWithRetry(@, RETRY_ATTEMPTS, outs[i])]]
       IN  /\ DOMAIN outs = DOMAIN started
           /\ AllSettled(sends)
           /\ cyc' = [cyc EXCEPT ![c] =
                        [@ EXCEPT !.lastHash = Null,
                                  !.broadcast = Len(allRecipients) > 0,
                                  !.successful = Successful(sends),
                                  !.failed = Failed(sends),
                                  !.pc = AfterBroadcast(Successful(sends),
                                                        Failed(sends))]]
    /\ UNCHANGED <<config, file, now, mainPc, pollingEnabled, scheduledTask, cmds, rt, trace>>

\* updateLastMessageHash: loadState resolved, the snapshot to save is built
\* (with the time of this moment) and saveState starts
PersistLoad(c) ==
    /\ cyc[c].pc = "persistLoad"
    /\ cyc' = [cyc EXCEPT ![c] =
                 [@ EXCEPT !.state = WithHash(LoadState(file), cyc[c].hash, now),
                           !.pc = "persistSave",
                           !.subs = <<>>, !.sends = <<>>,
                           !.successful = 0, !.failed = 0]]
    /\ UNCHANGED <<config, file, now, mainPc, pollingEnabled, scheduledTask, cmds, rt, trace>>

\* updateLastMessageHash: saveState wrote the snapshot; the cycle returns
PersistSaves(c, h) ==
    /\ cyc[c].pc = "persistSave"
    /\ file' = JsonFile(cyc[c].state)
    /\ Finish(c, [cyc[c] EXCEPT !.persisted = TRUE], "notified", NoError, h)
    /\ UNCHANGED <<config, now, pollingEnabled, scheduledTask, cmds, rt, trace>>

\* updateLastMessageHash: saveState raised
PersistFails(c) ==
    /\ cyc[c].pc = "persistSave"
    /\ file' = SaveWrites(file, cyc[c].state, "write")
    /\ Catch(c, cyc[c], SaveRaises("write"))
    /\ UNCHANGED <<config, now, pollingEnabled, scheduledTask, cmds, rt, trace>>

\* sendErrorNotification settled: try/catch, then `throw error`
ErrorNotified(c, r, h) ==
    LET sendError == ErrorNotificationRaises(r) IN
    Finish(c, [cyc[c] EXCEPT !.errNotified =
                                IF r.pc = "returned" THEN "sent" ELSE "failed"],
           "failed",
           IF sendError # NoError THEN sendError ELSE cyc[c].error, h)

ErrSendResolves(c, h) ==
    /\ cyc[c].pc = "errNotify" /\ cyc[c].errSend.pc = "fn"
    /\ ErrorNotified(c, FnResolved(cyc[c].errSend), h)
    /\ UNCHANGED <<config, file, now, pollingEnabled, scheduledTask, cmds, rt, trace>>

ErrSendRejects(c, h) ==
    /\ cyc[c].pc = "errNotify" /\ cyc[c].errSend.pc = "fn"
    /\ LET r == FnRejected(cyc[c].errSend, RETRY_ATTEMPTS, SendError) IN
         IF r.pc = "thrown"
         THEN ErrorNotified(c, r, h)
         ELSE /\ cyc' = [cyc EXCEPT ![c].errSend = r]
              /\ mainPc' = mainPc
    /\ UNCHANGED <<config, file, now, pollingEnabled, scheduledTask, cmds, rt, trace>>

ErrSendDelayElapses(c) ==
    /\ cyc[c].pc = "errNotify" /\ cyc[c].errSend.pc = "delay"
    /\ cyc' = [cyc EXCEPT ![c].errSend = DelayElapsed(@, RETRY_ATTEMPTS)]
    /\ UNCHANGED <<config, file, now, mainPc, pollingEnabled, scheduledTask, cmds, rt, trace>>

----------------------------------------------------------------------------
(* providers/telegram.provider: the /start and /stop handlers *)

\* (lost: what the handler's save overwrote, a change another writer had
\* stored after this handler loaded)
NewCmd ==
    [kind |-> "none", chatId |-> 0, pc |-> "idle",
     state |-> DEFAULT_STATE, result |-> "none", lost |-> "none"]

Overwritten(current, loaded) ==
    IF current.lastMessageHash # loaded.lastMessageHash THEN "hash"
    ELSE IF current.subscribers # loaded.subscribers THEN "subscribers"
    ELSE "none"

\* a faulty variant of SavedBy that re-reads the file when it writes
SavedByFresh(current, loaded, kind, chatId) ==
    IF kind = "add" THEN WithSubscriber(current, chatId)
    ELSE WithoutSubscriber(current, chatId)

\* the snapshot addSubscriber / removeSubscriber writes: the state it loaded
\* with its own change, whatever the file holds by now
SavedBy(current, loaded, kind, chatId) ==
    IF kind = "add" THEN WithSubscriber(loaded, chatId)
    ELSE WithoutSubscriber(loaded, chatId)

\* a faulty variant of NothingToDo: the includes test is missing
NothingToDoNever(state, kind, chatId) == FALSE

\* whether addSubscriber / removeSubscriber returns false without writing
NothingToDo(state, kind, chatId) ==
    IF kind = "add" THEN Includes(state.subscribers, chatId)
    ELSE ~Includes(state.subscribers, chatId)

\* a /start or /stop message arrives from chatId; loadState resolved
CmdLoad(o, kind, chatId) ==
    /\ pollingEnabled
    /\ InFlight < MaxInFlight
    /\ cmds[o].pc = "idle"
    /\ LET state == LoadState(file) IN
         cmds' = [cmds EXCEPT ![o] =
                    IF NothingToDo(state, kind, chatId)
                    THEN [NewCmd EXCEPT !.kind = kind, !.chatId = chatId,
                                        !.result = "false", !.pc = "reply"]
                    ELSE [NewCmd EXCEPT !.kind = kind, !.chatId = chatId,
                                        !.state = state, !.pc = "saving"]]
    /\ UNCHANGED <<config, file, now, mainPc, pollingEnabled, scheduledTask, cyc, rt, trace>>

\* saveState wrote the snapshot: the operation returns true
CmdSaves(o) ==
    /\ cmds[o].pc = "saving"
    /\ file' = JsonFile(SavedBy(LoadState(file), cmds[o].state,
                                cmds[o].kind, cmds[o].chatId))
    /\ cmds' = [cmds EXCEPT ![o] =
                  [@ EXCEPT !.result = "true", !.pc = "reply",
                            !.state = DEFAULT_STATE,
                            !.lost = Overwritten(LoadState(file), cmds[o].state)]]
    /\ UNCHANGED <<config, now, mainPc, pollingEnabled, scheduledTask, cyc, rt, trace>>

\* saveState raised: the handler's catch logs it, no reply is sent
CmdSaveFails(o) ==
    /\ cmds[o].pc = "saving"
    /\ cmds' = Compacted([cmds EXCEPT ![o] = NewCmd], NewCmd)
    /\ UNCHANGED <<config, file, now, mainPc, pollingEnabled, scheduledTask, cyc, rt, trace>>

\* the reply bot.sendMessage settled (a rejection is caught and logged)
CmdReply(o) ==
    /\ cmds[o].pc = "reply"
    /\ cmds' = Compacted([cmds EXCEPT ![o] = NewCmd], NewCmd)
    /\ UNCHANGED <<config, file, now, mainPc, pollingEnabled, scheduledTask, cyc, rt, trace>>

----------------------------------------------------------------------------
(* index.ts: main and the scheduler *)

\* a faulty variant of MainBegin that calls forceNotify without awaiting it
MainBeginNoAwait(runInitialCheck, h) ==
    /\ mainPc = "start"
    /\ IF runInitialCheck
       THEN \E c \in CycleIds : NextCycle(c) /\ StartCycle(c, "force", h)
       ELSE cyc' = cyc
    /\ mainPc' = "initBot"
    /\ UNCHANGED <<config, file, now, pollingEnabled, scheduledTask, cmds, rt, trace>>

\* main up to its first await: with --check-now in argv, forceNotify is
\* called
MainBegin(runInitialCheck, h) ==
    /\ mainPc = "start"
    /\ IF runInitialCheck
       THEN /\ \E c \in CycleIds : NextCycle(c) /\ StartCycle(c, "force", h)
            /\ mainPc' = "forcing"
       ELSE /\ mainPc' = "initBot"
            /\ cyc' = cyc
    /\ UNCHANGED <<config, file, now, pollingEnabled, scheduledTask, cmds, rt, trace>>

\* initializeTelegramBot resolved (polling on, handlers registered), then
\* startScheduler
MainInitBot ==
    /\ mainPc = "initBot"
    /\ mainPc' = "running"
    /\ pollingEnabled' = TRUE
    /\ scheduledTask' = TRUE
    /\ UNCHANGED <<config, file, now, cyc, cmds, rt, trace>>

\* bot.startPolling rejected: main().catch logs and exits
MainInitBotFails ==
    /\ mainPc = "initBot"
    /\ mainPc' = "exited"
    /\ UNCHANGED <<config, file, now, pollingEnabled, scheduledTask, cyc, cmds, rt, trace>>

\* a faulty variant of Tick that waits for the cycle in flight
TickSerialized(h) ==
    /\ scheduledTask
    /\ \A c \in CycleIds : ~Active(c)
    /\ InFlight < MaxInFlight
    /\ \E c \in CycleIds : NextCycle(c) /\ StartCycle(c, "check", h)
    /\ UNCHANGED <<config, file, now, mainPc, pollingEnabled, scheduledTask, cmds, rt, trace>>

\* the cron schedule fires: the callback calls checkAndNotify
Tick(h) ==
    /\ scheduledTask
    /\ InFlight < MaxInFlight
    /\ \E c \in CycleIds : NextCycle(c) /\ StartCycle(c, "check", h)
    /\ UNCHANGED <<config, file, now, mainPc, pollingEnabled, scheduledTask, cmds, rt, trace>>

\* time passes
TimePasses ==
    /\ now < MaxClock
    /\ now' = now + 1
    /\ UNCHANGED <<config, file, mainPc, pollingEnabled, scheduledTask, cyc, cmds, rt, trace>>

----------------------------------------------------------------------------
(* Specifications *)

Init ==
    /\ config \in [TELEGRAM_CHAT_ID : ConfigChatIds]
    /\ file \in StoredStates
    /\ now = 1
    /\ mainPc = "start"
    /\ pollingEnabled = FALSE
    /\ scheduledTask = FALSE
    /\ cyc = [c \in CycleIds |-> NewCycle]
    /\ cmds = [o \in CmdIds |-> NewCmd]
    /\ rt = IdleRetry
    /\ trace = <<>>

SendOutcomes == [1..RETRY_ATTEMPTS -> {NoError, SendError}]

\* how many recipients a broadcast starting now has
NumRecipients ==
    Len(AllRecipients(LoadState(file).subscribers,
                      ParseInt(config.TELEGRAM_CHAT_ID)))

\* what a cycle in flight does next, but for sendMessageToAllSubscribers
CycleStep(c, h) ==
    \/ \E events \in Responses : FetchResolves(c, events)
    \/ \E err \in FetchErrors : FetchRejects(c, err)
    \/ FetchDelayElapses(c)
    \/ GetLastHash(c, h)
    \/ PersistLoad(c)
    \/ PersistSaves(c, h)
    \/ PersistFails(c)
    \/ ErrSendResolves(c, h)
    \/ ErrSendRejects(c, h)
    \/ ErrSendDelayElapses(c)

CmdStep(o) ==
    \/ CmdSaves(o)
    \/ CmdSaveFails(o)
    \/ CmdReply(o)

\* the running process: ticks and commands arrive whatever is in flight
Next ==
    \/ \E runInitialCheck \in BOOLEAN : MainBegin(runInitialCheck, FALSE)
    \/ MainInitBot
    \/ MainInitBotFails
    \/ Tick(FALSE)
    \/ \E c \in CycleIds : CycleStep(c, FALSE)
    \/ \E c \in CycleIds : \E outs \in [1..NumRecipients -> SendOutcomes] :
          Broadcast(c, outs)
    \/ \E o \in CmdIds, kind \in {"add", "remove"}, chatId \in ChatIds :
          NextCmd(o) /\ CmdLoad(o, kind, chatId)
    \/ \E o \in CmdIds : CmdStep(o)

Spec == Init /\ [][Next]_vars

\* the same process when ticks and commands arrive only while nothing is in
\* flight; the fan-out is followed send by send
NextSeq ==
    \/ \E runInitialCheck \in BOOLEAN : MainBegin(runInitialCheck, TRUE)
    \/ MainInitBot
    \/ MainInitBotFails
    \/ Quiet /\ Tick(TRUE)
    \/ TimePasses
    \/ \E c \in CycleIds : CycleStep(c, TRUE)
    \/ \E c \in CycleIds : GetSubscribers(c)
    \/ \E c \in CycleIds : \E i \in DOMAIN cyc[c].sends : SendResolves(c, i)
    \/ \E c \in CycleIds : \E i \in DOMAIN cyc[c].sends : SendRejects(c, i)
    \/ \E c \in CycleIds : \E i \in DOMAIN cyc[c].sends : SendDelayElapses(c, i)
    \/ \E c \in CycleIds : BroadcastCompletes(c)
    \/ \E o \in CmdIds, kind \in {"add", "remove"}, chatId \in ChatIds :
          Quiet /\ NextCmd(o) /\ CmdLoad(o, kind, chatId)
    \/ \E o \in CmdIds : CmdStep(o)

SpecSeq == Init /\ [][NextSeq]_vars

\* some pending operation of cycle c returns or fails
CycleMove(c) ==
    \/ CycleStep(c, TRUE)
    \/ GetSubscribers(c)
    \/ \E i \in DOMAIN cyc[c].sends :
          SendResolves(c, i) \/ SendRejects(c, i) \/ SendDelayElapses(c, i)
    \/ BroadcastCompletes(c)

\* SpecSeq when no fetch, send, timer or file operation stays pending for ever
SpecSeqFair == SpecSeq /\ \A c \in CycleIds : WF_vars(CycleMove(c))

\* one withRetry call
InitRetry ==
    /\ config \in [TELEGRAM_CHAT_ID : ConfigChatIds]
    /\ file = NoFile
    /\ now = 1
    /\ mainPc = "exited"
    /\ pollingEnabled = FALSE
    /\ scheduledTask = FALSE
    /\ cyc = [c \in CycleIds |-> NewCycle]
    /\ cmds = [o \in CmdIds |-> NewCmd]
    /\ rt \in {WithRetryCall(attempts, delayMs, hasOnRetry) :
                  attempts \in 0..MaxAttempts, delayMs \in DelayChoices,
                  hasOnRetry \in BOOLEAN}
    /\ trace = IF rt.r.pc = "fn"
               THEN <<Ev("fn", 1, NoError, Undefined, 0)>>
               ELSE <<>>

SpecRetry == InitRetry /\ [][NextRetry]_vars

----------------------------------------------------------------------------
(* The state-store operations called one after the other *)

StoreChatIds == ChatIds \cup {3}

\* what the calls can find on disk
StoreFiles ==
    {NoFile, BrokenFile("unreadable"), BrokenFile("invalid"), BrokenFile("null")}
    \cup { JsonFile([lastMessageHash |-> h,
                     lastCheckTime |-> IF h = Null THEN Null ELSE 0,
                     lastEventIds |-> <<>>,
                     subscribers |-> subs]) :
             h \in {Null, CheckResult(<<>>).contentHash},
             subs \in NoDupSeqs(StoreChatIds) }
    \cup { PartialFile([DEFAULT_STATE EXCEPT !.subscribers = <<1>>,
                                             !.lastMessageHash = 5], missing) :
             missing \in {{"subscribers"}, {"lastMessageHash", "lastCheckTime"},
                          {"lastEventIds"}} }

\* one finished call: its operation and argument, the fault injected into
\* its saveState, what it raised and returned, the file before and after,
\* and the state its loadState returned
StoreEv(op, arg, fault, raised, result, before, after, loaded) ==
    [op |-> op, arg |-> arg, fault |-> fault, raised |-> raised,
     result |-> result, before |-> before, after |-> after, loaded |-> loaded]

\* mkdir runs only when the directory, and so the file, does not exist
FaultApplies(fault) == fault = "mkdir" => file.kind = "absent"

\* loadState() called on its own
LoadStateCall ==
    /\ Len(trace) < MaxOps
    /\ trace' = Append(trace, StoreEv("load", 0, "none", LoadRaises(file),
                                      "none", file, file, LoadState(file)))
    /\ UNCHANGED <<config, file, now, mainPc, pollingEnabled, scheduledTask, cyc, cmds, rt>>

\* addSubscriber(chatId) / removeSubscriber(chatId) from call to return
SubscriberCall(kind, chatId, fault) ==
    /\ Len(trace) < MaxOps
    /\ FaultApplies(fault)
    /\ LET state == LoadState(file)
           skip == NothingToDo(state, kind, chatId)
           raised == IF skip THEN NoError ELSE SaveRaises(fault)
           after == IF skip THEN file
                    ELSE SaveWrites(file, SavedBy(state, state, kind, chatId), fault)
       IN  /\ skip => fault = "none"
           /\ file' = after
           /\ trace' = Append(trace,
                 StoreEv(kind, chatId, fault, raised,
                         IF skip THEN "false"
                         ELSE IF raised = NoError THEN "true" ELSE "none",
                         file, after, state))
    /\ UNCHANGED <<config, now, mainPc, pollingEnabled, scheduledTask, cyc, cmds, rt>>

\* updateLastMessageHash(hash) from call to return
UpdateLastMessageHashCall(hash, fault) ==
    /\ Len(trace) < MaxOps
    /\ FaultApplies(fault)
    /\ LET state == LoadState(file)
           after == SaveWrites(file, WithHash(state, hash, now), fault)
       IN  /\ file' = after
           /\ trace' = Append(trace,
                 StoreEv("hash", hash, fault, SaveRaises(fault), "none",
                         file, after, state))
    /\ UNCHANGED <<config, now, mainPc, pollingEnabled, scheduledTask, cyc, cmds, rt>>

InitStore ==
    /\ config \in [TELEGRAM_CHAT_ID : ConfigChatIds]
    /\ file \in StoreFiles
    /\ now = 1
    /\ mainPc = "exited"
    /\ pollingEnabled = FALSE
    /\ scheduledTask = FALSE
    /\ cyc = [c \in CycleIds |-> NewCycle]
    /\ cmds = [o \in CmdIds |-> NewCmd]
    /\ rt = IdleRetry
    /\ trace = <<>>

NextStore ==
    \/ LoadStateCall
    \/ \E kind \in {"add", "remove"}, chatId \in StoreChatIds, fault \in SaveFaults :
          SubscriberCall(kind, chatId, fault)
    \/ \E r \in Responses, fault \in SaveFaults :
          UpdateLastMessageHashCall(CheckResult(r).contentHash, fault)

SpecStore == InitStore /\ [][NextStore]_vars

----------------------------------------------------------------------------
(* providers/hoe.provider: what one 2xx response body is turned into *)

Emergency == "Avariine"          \* 'Аварійне'
Planned == "Zaplanovano"         \* 'Заплановано'
Unknown == "Nevidomo"            \* 'Невідомо'
AlertClass == "alert-info"
NoOutageText == "vidsutnie zareiestrovane vidkliuchennia"
TableMarker == "table-shutdowns"

\* JSON values
JNull == [t |-> "null"]
JUndefined == [t |-> "undefined"]
JBool(b) == [t |-> "bool", v |-> b]
JNum(n) == [t |-> "num", v |-> n]
JStr(str) == [t |-> "str", v |-> str]
JArr(elems) == [t |-> "arr", v |-> elems]
JObj(members) == [t |-> "obj", v |-> members]

\* the order in which the members of an object are written out
KeyOrder ==
    <<"success", "data", "id", "eventId", "dateStart", "date_start",
      "startDate", "dateEnd", "date_end", "endDate", "type", "eventType",
      "shutdownType", "shutdown_type", "queueGpv", "queue_gpv", "queueGav",
      "queue_gav", "status", "comment", "address", "error">>

\* the text of a JSON value, as tokens
RECURSIVE JsonText(_)
RECURSIVE JsonTexts(_)
RECURSIVE MemberTexts(_, _)
JsonText(v) ==
    CASE v.t = "null" -> <<"null">>
      [] v.t = "bool" -> IF v.v THEN <<"true">> ELSE <<"false">>
      [] v.t = "num" -> <<DigitChars[v.v + 1]>>
      [] v.t = "str" -> <<"'">> \o (IF v.v = "" THEN <<>> ELSE <<v.v>>) \o <<"'">>
      [] v.t = "arr" -> <<"[">> \o JsonTexts(v.v) \o <<"]">>
      [] v.t = "obj" ->
           <<"{">> \o MemberTexts(v.v, SelectSeq(KeyOrder, LAMBDA k : k \in DOMAIN v.v))
                  \o <<"}">>

JsonTexts(elems) ==
    IF elems = <<>> THEN <<>>
    ELSE JsonText(Head(elems))
         \o (IF Len(elems) > 1 THEN <<",">> ELSE <<>>)
         \o JsonTexts(Tail(elems))

MemberTexts(members, keys) ==
    IF keys = <<>> THEN <<>>
    ELSE <<"'", Head(keys), "'", ":">> \o JsonText(members[Head(keys)])
         \o (IF Len(keys) > 1 THEN <<",">> ELSE <<>>)
         \o MemberTexts(members, Tail(keys))

\* what upstream puts into an array of events
JsonElems ==
    { JNull, JNum(7), JStr("x"),
      JObj([id |-> JNum(7), dateStart |-> JStr("t1"), dateEnd |-> JStr("t2"),
            type |-> JStr("Remont"), shutdownType |-> JStr("Planove"),
            queueGpv |-> JStr("1"), queueGav |-> JStr("2"),
            status |-> JStr("Skasovano"), comment |-> JStr("c"),
            address |-> JStr("")]),
      JObj([id |-> JNull, eventId |-> JStr("e9"), date_start |-> JStr("t3"),
            endDate |-> JStr("t4"), eventType |-> JStr("Avariia"),
            shutdown_type |-> JStr(Emergency), queue_gpv |-> JNum(3),
            status |-> JStr(Emergency)]),
      JObj([shutdownType |-> JStr(Emergency), startDate |-> JStr("t5")]) }

\* sequences over S of length at most n
SeqsUpTo(S, n) == UNION { [1..k -> S] : k \in 0..n }

\* the JSON documents upstream answers with
JsonDocs ==
    { JNull, JNum(7), JStr("ok"), JStr("<div>"), JBool(TRUE),
      JObj([success |-> JBool(TRUE)]),
      JObj([success |-> JBool(TRUE), data |-> JNull]),
      JObj([success |-> JBool(FALSE)]),
      JObj([success |-> JBool(TRUE), data |-> JStr("x")]),
      JObj([data |-> JNum(0)]),
      JObj([error |-> JStr("x")]) }
    \cup { JArr(elems) : elems \in SeqsUpTo(JsonElems, MaxElems) }
    \cup { JObj([data |-> JArr(elems)]) : elems \in SeqsUpTo(JsonElems, MaxElems - 1) }
    \cup { JObj([success |-> JBool(FALSE), data |-> JArr(elems)]) :
              elems \in SeqsUpTo(JsonElems, 1) }

\* String.prototype.trim on a token text
RECURSIVE TrimEnd(_)
TrimEnd(text) ==
    IF text # <<>> /\ text[Len(text)] = " "
    THEN TrimEnd(SubSeq(text, 1, Len(text) - 1)) ELSE text

Trim(text) == TrimEnd(SkipSpaces(text))

\* JSON.parse: the value whose text this is, or a SyntaxError
JsonParse(text) ==
    LET values == {v \in JsonDocs : JsonText(v) = Trim(text)} IN
    IF values # {}
    THEN [threw |-> NoError, data |-> CHOOSE v \in values : TRUE]
    ELSE [threw |-> SyntaxError, data |-> JUndefined]

\* the tags of the modelled markup
OpenTags(name) ==
    CASE name = "tbody" -> {"<tbody>", "<TBODY class=list>"}
      [] name = "tr" -> {"<tr>", "<tr class=odd>"}
      [] name = "td" -> {"<td>", "<td class=c>"}

CloseTags(name) ==
    CASE name = "tbody" -> {"</tbody>", "</TBODY>"}
      [] name = "tr" -> {"</tr>"}
      [] name = "td" -> {"</td>"}

Tags ==
    UNION {OpenTags(name) \cup CloseTags(name) : name \in {"tbody", "tr", "td"}}
    \cup
    {"<table class=table-shutdowns>", "<table>", "</table>",
     "<div class=alert-info>", "<div>", "</div>", "<thead>", "</thead>",
     "<th>", "</th>", "<b>", "</b>", "<p>", "</p>"}

\* the searched substrings a token contains
Has(tok) ==
    CASE tok = "<table class=table-shutdowns>" -> {"<table", TableMarker}
      [] tok = "<table>" -> {"<table"}
      [] tok = "<div class=alert-info>" -> {"<div", AlertClass}
      [] tok \in {"<div>", "<div>x"} -> {"<div"}
      [] tok = NoOutageText -> {NoOutageText}
      [] tok = TableMarker -> {TableMarker}
      [] OTHER -> {}

\* text.includes(marker)
TextIncludes(text, marker) == \E i \in DOMAIN text : marker \in Has(text[i])

\* isHtmlResponse
isHtmlResponse(text) ==
    \/ Trim(text) # <<>> /\ Head(Trim(text)) \in Tags
    \/ TextIncludes(Trim(text), "<div")
    \/ TextIncludes(Trim(text), "<html")
    \/ TextIncludes(Trim(text), "<table")

\* isNoShutdownsAlert
isNoShutdownsAlert(text) ==
    TextIncludes(text, AlertClass) /\ TextIncludes(text, NoOutageText)

\* index of the first token of text after position from that is in S, or 0
RECURSIVE IndexAfter(_, _, _)
IndexAfter(text, from, S) ==
    IF from >= Len(text) THEN 0
    ELSE IF text[from + 1] \in S THEN from + 1
    ELSE IndexAfter(text, from + 1, S)

\* the first capture groups of the successive matches of
\* /<open[^>]*>([\s\S]*?)<\/close>/gi on text
RECURSIVE Captures(_, _, _)
Captures(text, Open, Close) ==
    LET i == IndexAfter(text, 0, Open)
        j == IF i = 0 THEN 0 ELSE IndexAfter(text, i, Close)
    IN  IF j = 0 THEN <<>>
        ELSE <<SubSeq(text, i + 1, j - 1)>>
             \o Captures(SubSeq(text, j + 1, Len(text)), Open, Close)

RECURSIVE Concat(_)
Concat(text) == IF text = <<>> THEN "" ELSE Head(text) \o Concat(Tail(text))

\* cellMatch[1].replace(/<[^>]*>/g, '').trim()
CellValue(inner) == Concat(Trim(SelectSeq(inner, LAMBDA tok : tok \notin Tags)))

\* the td values of one row
Cells(rowHtml) ==
    LET inner == Captures(rowHtml, OpenTags("td"), CloseTags("td")) IN
    [k \in DOMAIN inner |-> CellValue(inner[k])]

\* the event pushed for a row with six or more cells
TableEvent(eventId, cells) ==
    [id |-> eventId, type |-> cells[1], shutdownType |-> cells[2],
     queueGpv |-> cells[3], queueGav |-> cells[4],
     dateStart |-> cells[5], dateEnd |-> cells[6],
     status |-> IF cells[2] = Emergency THEN Emergency ELSE Planned]

\* a faulty variant of RowEvents that numbers the rows, not the events
RECURSIVE RowEventsNumberingRows(_, _)
RowEventsNumberingRows(rows, eventId) ==
    IF rows = <<>> THEN <<>>
    ELSE (IF Len(Cells(Head(rows))) >= 6
          THEN <<TableEvent(eventId, Cells(Head(rows)))>> ELSE <<>>)
         \o RowEventsNumberingRows(Tail(rows), eventId + 1)

\* the while loop of parseHtmlTable over the rows, eventId being the next id
RECURSIVE RowEvents(_, _)
RowEvents(rows, eventId) ==
    IF rows = <<>> THEN <<>>
    ELSE IF Len(Cells(Head(rows))) >= 6
         THEN <<TableEvent(eventId, Cells(Head(rows)))>>
              \o RowEvents(Tail(rows), eventId + 1)
         ELSE RowEvents(Tail(rows), eventId)

\* parseHtmlTable
parseHtmlTable(html) ==
    IF ~TextIncludes(html, TableMarker) THEN <<>>
    ELSE LET tbodyMatch == Captures(html, OpenTags("tbody"), CloseTags("tbody")) IN
         IF tbodyMatch = <<>> THEN <<>>
         ELSE RowEvents(Captures(tbodyMatch[1], OpenTags("tr"), CloseTags("tr")), 1)

\* raw.key: undefined on anything that is not an object with that member
Prop(raw, key) ==
    IF raw.t = "obj" /\ key \in DOMAIN raw.v THEN raw.v[key] ELSE JUndefined

Nullish(v) == v.t \in {"null", "undefined"}

Truthy(v) ==
    CASE v.t \in {"null", "undefined"} -> FALSE
      [] v.t = "bool" -> v.v
      [] v.t = "num" -> v.v # 0
      [] v.t = "str" -> v.v # ""
      [] OTHER -> TRUE

\* a ?? b ?? ... ?? default over the members keys of raw
RECURSIVE Coalesce(_, _, _)
Coalesce(raw, keys, default) ==
    IF keys = <<>> THEN JStr(default)
    ELSE IF ~Nullish(Prop(raw, Head(keys))) THEN Prop(raw, Head(keys))
    ELSE Coalesce(raw, Tail(keys), default)

\* String(v)
RECURSIVE String(_)
RECURSIVE JoinStrings(_)
String(v) ==
    CASE v.t = "str" -> v.v
      [] v.t = "num" -> DigitChars[v.v + 1]
      [] v.t = "bool" -> IF v.v THEN "true" ELSE "false"
      [] v.t = "null" -> "null"
      [] v.t = "undefined" -> "undefined"
      [] v.t = "arr" -> JoinStrings(v.v)
      [] v.t = "obj" -> "[object Object]"

JoinStrings(elems) ==
    IF elems = <<>> THEN ""
    ELSE (IF Nullish(Head(elems)) THEN "" ELSE String(Head(elems)))
         \o (IF Len(elems) > 1 THEN "," ELSE "")
         \o JoinStrings(Tail(elems))

\* whether normalizeEvent(raw) throws: event.id is read off null
NormalizeThrows(raw) == Nullish(raw)

\* normalizeEvent
normalizeEvent(raw) ==
    [id |-> String(Coalesce(raw, <<"id", "eventId">>, "")),
     dateStart |-> String(Coalesce(raw, <<"dateStart", "date_start", "startDate">>, "")),
     dateEnd |-> String(Coalesce(raw, <<"dateEnd", "date_end", "endDate">>, "")),
     type |-> String(Coalesce(raw, <<"type", "eventType">>, Unknown)),
     shutdownType |-> String(Coalesce(raw, <<"shutdownType", "shutdown_type">>, "")),
     queueGpv |-> String(Coalesce(raw, <<"queueGpv", "queue_gpv">>, "-")),
     queueGav |-> String(Coalesce(raw, <<"queueGav", "queue_gav">>, "-")),
     status |-> String(Coalesce(raw, <<"status">>, Planned)),
     comment |-> IF Truthy(Prop(raw, "comment"))
                 THEN String(Prop(raw, "comment")) ELSE Undefined,
     address |-> IF Truthy(Prop(raw, "address"))
                 THEN String(Prop(raw, "address")) ELSE Undefined]

\* what a function of the provider ends with: the error it threw or the
\* events it returned, and whether it logged a warning
Outcome(threw, events, warned) ==
    [threw |-> threw, events |-> events, warned |-> warned]

\* elems.map(normalizeEvent)
MapNormalize(elems) ==
    IF \E i \in DOMAIN elems : NormalizeThrows(elems[i])
    THEN Outcome(TypeError, <<>>, FALSE)
    ELSE Outcome(NoError, [i \in DOMAIN elems |-> normalizeEvent(elems[i])], FALSE)

\* parseHoeResponse
parseHoeResponse(data) ==
    IF data.t = "arr" THEN MapNormalize(data.v)
    ELSE IF data.t = "obj" /\ Truthy(Prop(data, "data"))
                           /\ Prop(data, "data").t = "arr"
         THEN MapNormalize(Prop(data, "data").v)
    ELSE IF data.t = "obj" /\ Prop(data, "success") = JBool(TRUE)
                           /\ ~Truthy(Prop(data, "data"))
         THEN Outcome(NoError, <<>>, FALSE)
    ELSE Outcome(NoError, <<>>, TRUE)

\* fetchWithRetry from `await response.text()` on: one attempt on a 2xx body
FetchAttempt(text) ==
    LET events == parseHtmlTable(text)
        parsed == JsonParse(text)
    IN  IF isHtmlResponse(text)
        THEN IF isNoShutdownsAlert(text) THEN Outcome(NoError, <<>>, FALSE)
             ELSE IF Len(events) > 0 THEN Outcome(NoError, events, FALSE)
             ELSE Outcome(NoError, <<>>, TRUE)
        ELSE IF parsed.threw # NoError THEN Outcome(NoError, <<>>, TRUE)
        ELSE parseHoeResponse(parsed.data)

\* the cells upstream writes: the text, whether it is set in bold and
\* whether white space surrounds it
Cell(text, bold, pad) == [text |-> text, bold |-> bold, pad |-> pad]

CellHtml(cell) ==
    <<IF cell.bold THEN "<td class=c>" ELSE "<td>">>
    \o (IF cell.pad THEN <<" ">> ELSE <<>>)
    \o (IF cell.bold THEN <<"<b>">> ELSE <<>>)
    \o (IF cell.text = "" THEN <<>> ELSE <<cell.text>>)
    \o (IF cell.bold THEN <<"</b>">> ELSE <<>>)
    \o (IF cell.pad THEN <<" ", " ">> ELSE <<>>)
    \o <<"</td>">>

RECURSIVE CellsHtml(_)
CellsHtml(cells) ==
    IF cells = <<>> THEN <<>> ELSE CellHtml(Head(cells)) \o CellsHtml(Tail(cells))

RowHtml(cells) ==
    <<IF Len(cells) > 6 THEN "<tr class=odd>" ELSE "<tr>">>
    \o CellsHtml(cells) \o <<"</tr>">>

RECURSIVE RowsHtml(_)
RowsHtml(rows) ==
    IF rows = <<>> THEN <<>> ELSE RowHtml(Head(rows)) \o RowsHtml(Tail(rows))

\* the rows upstream writes: a planned outage in six cells, an emergency
\* one in seven, and a row of four cells
TableRows ==
    { <<Cell("Remont", FALSE, FALSE), Cell("Planove", FALSE, TRUE),
        Cell("1", FALSE, FALSE), Cell("", FALSE, FALSE),
        Cell("t1", FALSE, FALSE), Cell("t2", TRUE, FALSE)>>,
      <<Cell("Avariia", TRUE, TRUE), Cell(Emergency, TRUE, TRUE),
        Cell("3", FALSE, FALSE), Cell("4", FALSE, TRUE),
        Cell("t3", FALSE, FALSE), Cell("t4", FALSE, FALSE),
        Cell("note", FALSE, FALSE)>>,
      <<Cell("Remont", FALSE, FALSE), Cell(Emergency, FALSE, FALSE),
        Cell("5", FALSE, FALSE), Cell("t5", FALSE, FALSE)>> }

\* an HTML answer: an optional alert, a table with or without the marker
\* and a header row, and the rows inside a tbody that is closed, left open
\* or missing
HtmlDoc(alert, marker, header, tbody, rows) ==
    [kind |-> "html", alert |-> alert, marker |-> marker, header |-> header,
     tbody |-> tbody, rows |-> rows, json |-> JUndefined,
     text |->
        (IF alert \in {"class", "both"} THEN <<"<div class=alert-info>">>
         ELSE <<"<div>">>)
        \o (IF alert \in {"text", "both"} THEN <<NoOutageText>> ELSE <<"x">>)
        \o <<"</div>">>
        \o <<IF marker THEN "<table class=table-shutdowns>" ELSE "<table>">>
        \o (IF header
            THEN <<"<thead>", "<tr>", "<th>", "Type", "</th>", "</tr>", "</thead>">>
            ELSE <<>>)
        \o (IF tbody = "none" THEN <<>> ELSE <<"<TBODY class=list>">>)
        \o RowsHtml(rows)
        \o (IF tbody = "closed" THEN <<"</tbody>">> ELSE <<>>)
        \o <<"</table>">>]

JsonBody(v, lead) ==
    [kind |-> "json", alert |-> "none", marker |-> FALSE, header |-> FALSE,
     tbody |-> "none", rows |-> <<>>, json |-> v,
     text |-> (IF lead THEN <<" ">> ELSE <<>>) \o JsonText(v)]

RawBody(text) ==
    [kind |-> "raw", alert |-> "none", marker |-> FALSE, header |-> FALSE,
     tbody |-> "none", rows |-> <<>>, json |-> JUndefined, text |-> text]

\* the 2xx response bodies
Bodies ==
    { HtmlDoc(alert, marker, header, tbody, rows) :
         alert \in {"none", "class", "text", "both"}, marker \in BOOLEAN,
         header \in BOOLEAN, tbody \in {"none", "open", "closed"},
         rows \in SeqsUpTo(TableRows, MaxRows) }
    \cup { JsonBody(v, lead) : v \in JsonDocs, lead \in BOOLEAN }
    \cup { RawBody(text) :
             text \in { <<>>, <<"Bad", " ", "Gateway">>,
                        <<"Error", "<div>x">>,
                        <<" ", "<p>", TableMarker, "</p>">>,
                        <<"[", "null">> } }

\* fetchShutdownEvents is called and upstream answers every attempt with body
FetchCall(body) ==
    [active |-> TRUE, attempts |-> RETRY_ATTEMPTS, delayMs |-> 1,
     hasOnRetry |-> TRUE, value |-> Undefined,
     r |-> WithRetryStart(RETRY_ATTEMPTS), body |-> body]

InitParse ==
    /\ config \in [TELEGRAM_CHAT_ID : ConfigChatIds]
    /\ file = NoFile
    /\ now = 1
    /\ mainPc = "exited"
    /\ pollingEnabled = FALSE
    /\ scheduledTask = FALSE
    /\ cyc = [c \in CycleIds |-> NewCycle]
    /\ cmds = [o \in CmdIds |-> NewCmd]
    /\ rt \in {FetchCall(body) : body \in Bodies}
    /\ trace = IF rt.r.pc = "fn"
               THEN <<Ev("fn", 1, NoError, Undefined, 0)>>
               ELSE <<>>

\* an attempt that returns events
AttemptReturns ==
    /\ rt.active /\ rt.r.pc = "fn"
    /\ LET outcome == FetchAttempt(rt.body.text) IN
         outcome.threw = NoError /\ RetryFnResolves(outcome.events)

\* an attempt that throws
AttemptThrows ==
    /\ rt.active /\ rt.r.pc = "fn"
    /\ LET outcome == FetchAttempt(rt.body.text) IN
         outcome.threw # NoError /\ RetryFnRejects(outcome.threw)

NextParse ==
    \/ AttemptReturns
    \/ AttemptThrows
    \/ RetryDelayElapses

SpecParse == InitParse /\ [][NextParse]_vars

----------------------------------------------------------------------------
(* Properties of withRetry, checked under SpecRetry *)

\* the positions of the trace holding an event of kind ev
EventsOf(ev) == {i \in DOMAIN trace : trace[i].ev = ev}

\* C5: for attempts n >= 1, withRetry invokes fn at most n times, invokes it
\* again only after the invocation before failed, returns the value of the
\* first invocation that succeeds without invoking fn again, and, when all n
\* invocations failed, raises the error of the n-th one.
C5_RetryBound ==
    (rt.active /\ rt.attempts >= 1) =>
      /\ Cardinality(EventsOf("fn")) <= rt.attempts
      /\ \A i \in EventsOf("fn") :
            /\ trace[i].attempt = Cardinality({j \in EventsOf("fn") : j <= i})
            /\ trace[i].attempt > 1 =>
                 \E j \in EventsOf("rejected") :
                    j < i /\ trace[j].attempt = trace[i].attempt - 1
      /\ \A i \in EventsOf("resolved") :
            /\ i = Len(trace)
            /\ rt.r.pc = "returned"
            /\ rt.value = trace[i].value
      /\ rt.r.pc = "returned" => trace[Len(trace)].ev = "resolved"
      /\ rt.r.pc = "thrown" =>
            /\ Cardinality(EventsOf("fn")) = rt.attempts
            /\ Cardinality(EventsOf("rejected")) = rt.attempts
            /\ trace[Len(trace)].ev = "rejected"
            /\ trace[Len(trace)].attempt = rt.attempts
            /\ rt.r.lastError = AsError(trace[Len(trace)].error)

\* every one of three invocations failed, the last with another error than
\* the first, and the call raised
C5_Witness ==
    /\ rt.active /\ rt.attempts = 3 /\ rt.r.pc = "thrown"
    /\ \E i, j \in EventsOf("rejected") :
          /\ trace[i].attempt = 1 /\ trace[j].attempt = 3
          /\ trace[i].error # trace[j].error

\* C6: after the k-th failed invocation with k < n, onRetry (when given) is
\* called once with that error and k, then the delay is awaited, then
\* invocation k+1 is made; after the n-th failure neither happens, so a call
\* that fails n times makes exactly the callbacks 1..n-1 in order.
C6_RetryCallbacks ==
    (rt.active /\ rt.attempts >= 1) =>
      /\ \A i \in EventsOf("rejected") :
            LET k == trace[i].attempt
                d == IF rt.hasOnRetry THEN i + 2 ELSE i + 1
            IN  IF k < rt.attempts
                THEN /\ d <= Len(trace)
                     /\ rt.hasOnRetry =>
                          trace[i + 1] =
                            Ev("onRetry", k, AsError(trace[i].error), Undefined, 0)
                     /\ trace[d] = Ev("delay", k, NoError, Undefined, rt.delayMs)
                     /\ d < Len(trace) =>
                          trace[d + 1] = Ev("fn", k + 1, NoError, Undefined, 0)
                ELSE i = Len(trace)
      /\ \A i \in EventsOf("fn") :
            trace[i].attempt > 1 =>
               /\ trace[i - 1].ev = "delay"
               /\ trace[i - 1].attempt = trace[i].attempt - 1
      /\ \A i \in EventsOf("onRetry") :
            /\ rt.hasOnRetry
            /\ trace[i - 1].ev = "rejected"
            /\ trace[i].attempt =
                 Cardinality({j \in EventsOf("onRetry") : j <= i})
      /\ \A i \in EventsOf("delay") :
            trace[i].attempt = Cardinality({j \in EventsOf("delay") : j <= i})
      /\ rt.r.pc = "thrown" =>
            /\ Cardinality(EventsOf("delay")) = rt.attempts - 1
            /\ Cardinality(EventsOf("onRetry")) =
                 IF rt.hasOnRetry THEN rt.attempts - 1 ELSE 0

\* a call with onRetry whose three invocations all failed
C6_Witness ==
    /\ rt.active /\ rt.attempts = 3 /\ rt.hasOnRetry /\ rt.r.pc = "thrown"
    /\ Cardinality(EventsOf("onRetry")) = 2
    /\ Cardinality(EventsOf("rejected")) = 3

----------------------------------------------------------------------------
(* Properties of one cycle at a time, checked under SpecSeq *)

\* cycle c was the next one to start after cycle d ended
FollowedBy(d, c) ==
    /\ c # d
    /\ cyc[d].pc = "done"
    /\ cyc[c].pc # "idle"
    /\ cyc[c].seq = cyc[d].seq + 1

\* the chat ids the broadcast of cycle c sends to, in order
Targets(c) == [i \in DOMAIN cyc[c].sends |-> cyc[c].sends[i].chatId]

\* cycle c is between the start of its sends and the return of
\* sendMessageToAllSubscribers, or has just returned from it
Broadcasting(c) == cyc[c].pc \in {"sending", "persistLoad"}

\* C1: of two checkAndNotify cycles that run one after the other and get the
\* same upstream response, where the first found a null or different stored
\* hash and persisted its own, the first broadcasts once and the second
\* broadcasts nothing and ends as skipped.
C1_SecondCycleSkips ==
    \A d, c \in CycleIds :
       ( /\ FollowedBy(d, c)
         /\ cyc[d].kind = "check" /\ cyc[c].kind = "check"
         /\ cyc[d].outcome = "notified" /\ cyc[d].persisted
         /\ cyc[c].hash # Null
         /\ cyc[c].events = cyc[d].events
         /\ cyc[c].pc # "getHash" )
       => /\ cyc[d].broadcast
          /\ cyc[d].raised = NoError
          /\ cyc[c].pc = "done"
          /\ cyc[c].outcome = "skipped"
          /\ cyc[c].lastHash = cyc[c].hash
          /\ ~cyc[c].broadcast
          /\ ~cyc[c].persisted

\* a notified scheduled cycle followed by a skipped one on the same response
C1_Witness ==
    \E d, c \in CycleIds :
       /\ FollowedBy(d, c)
       /\ cyc[d].kind = "check" /\ cyc[c].kind = "check"
       /\ cyc[d].outcome = "notified" /\ cyc[d].broadcast
       /\ cyc[c].pc = "done" /\ cyc[c].outcome = "skipped"
       /\ cyc[c].events = cyc[d].events
       /\ cyc[c].events # <<>>

\* C2: forceNotify never reads or compares the stored hash; once its fetch
\* succeeded it broadcasts to the recipients, also when the stored hash
\* equals the hash of the content, and it never ends as skipped.
C2_ForceAlwaysBroadcasts ==
    \A c \in CycleIds :
       cyc[c].kind = "force" =>
          /\ cyc[c].pc # "getHash"
          /\ cyc[c].outcome # "skipped"
          /\ cyc[c].lastHash = Null
          /\ (cyc[c].hash # Null /\ cyc[c].pc # "getSubs") =>
                /\ cyc[c].broadcast
                /\ Broadcasting(c) => Len(cyc[c].sends) >= 1

\* a forced cycle sending although the stored hash is the content's hash
C2_Witness ==
    \E c \in CycleIds :
       /\ cyc[c].kind = "force" /\ cyc[c].pc = "sending"
       /\ LoadState(file).lastMessageHash = cyc[c].hash

\* C3: for the stored subscribers S and the default chat d, the broadcast
\* starts exactly one delivery for each element of S and exactly one for d,
\* whether d is in S or not; d is appended after S when it is not in S.
C3_OneDeliveryEach ==
    \A c \in CycleIds :
       Broadcasting(c) =>
          LET S == cyc[c].subs
              d == ParseInt(config.TELEGRAM_CHAT_ID)
          IN  /\ \A x \in Range(S) \cup {d} : Count(Targets(c), x) = 1
              /\ Range(Targets(c)) = Range(S) \cup {d}
              /\ SubSeq(Targets(c), 1, Len(S)) = S
              /\ ~Includes(S, d) => Targets(c) = Append(S, d)
              /\ \A i \in DOMAIN cyc[c].sends : cyc[c].sends[i].r.attempt >= 1

\* a broadcast where d is one of two stored subscribers, and not the last
C3_Witness ==
    \E c \in CycleIds :
       /\ cyc[c].pc = "sending"
       /\ Len(cyc[c].subs) = 2
       /\ cyc[c].subs[1] = ParseInt(config.TELEGRAM_CHAT_ID)

\* C4: every delivery of a broadcast is attempted whatever becomes of the
\* others, the broadcast returns without raising, and the counts it logs
\* add up to the number of recipients.
C4_BroadcastNeverRaises ==
    \A c \in CycleIds :
       /\ cyc[c].pc = "sending" =>
             /\ \A i \in DOMAIN cyc[c].sends : cyc[c].sends[i].r.pc # "idle"
             /\ cyc[c].error = NoError
       /\ (cyc[c].pc = "persistLoad" /\ cyc[c].broadcast) =>
             /\ AllSettled(cyc[c].sends)
             /\ cyc[c].successful + cyc[c].failed = Len(cyc[c].sends)
             /\ cyc[c].successful = Successful(cyc[c].sends)
             /\ cyc[c].error = NoError
       /\ cyc[c].error \notin {SendError}
       /\ cyc[c].raised \notin {SendError}

\* a broadcast to two recipients returned with the first delivery failed for
\* good and the second one made
C4_Witness ==
    \E c \in CycleIds :
       /\ cyc[c].pc = "persistLoad"
       /\ Len(cyc[c].sends) = 2
       /\ cyc[c].sends[1].r.pc = "thrown"
       /\ cyc[c].sends[2].r.pc = "returned"
       /\ cyc[c].failed = 1 /\ cyc[c].successful = 1

\* C7: when a step of a cycle fails, one error notification is attempted to
\* the default chat and then the original failure is raised to the caller;
\* a failure of the error notification is swallowed.
C7_ErrorNotifiedThenRaised ==
    \A c \in CycleIds :
       /\ cyc[c].pc = "errNotify" =>
             /\ cyc[c].error \in FetchErrors \cup {SaveError}
             /\ cyc[c].errSend.pc \in {"fn", "delay"}
             /\ cyc[c].errTo = config.TELEGRAM_CHAT_ID
             /\ cyc[c].errNotified = "none"
       /\ (cyc[c].pc = "done" /\ cyc[c].outcome = "failed") =>
             /\ cyc[c].error \in FetchErrors \cup {SaveError}
             /\ cyc[c].raised = cyc[c].error
             /\ cyc[c].errNotified \in {"sent", "failed"}
             /\ cyc[c].errTo = config.TELEGRAM_CHAT_ID
             /\ cyc[c].caller = "caught"
       /\ (cyc[c].pc = "done" /\ cyc[c].outcome # "failed") =>
             /\ cyc[c].raised = NoError
             /\ cyc[c].error = NoError
             /\ cyc[c].errNotified = "none"

\* a cycle whose save failed and whose error notification failed as well
C7_Witness ==
    \E c \in CycleIds :
       /\ cyc[c].pc = "done" /\ cyc[c].outcome = "failed"
       /\ cyc[c].error = SaveError
       /\ cyc[c].errNotified = "failed"
       /\ cyc[c].raised = SaveError

\* C8: a failed scheduled cycle does not stop the scheduler: the failure is
\* caught in the tick callback, the task stays scheduled and the next tick
\* starts a cycle.
C8_SchedulerSurvivesFailure ==
    /\ \A c \in CycleIds :
          (cyc[c].kind = "check" /\ cyc[c].pc = "done") =>
             /\ cyc[c].caller \in {"returned", "caught"}
             /\ cyc[c].raised # NoError => cyc[c].caller = "caught"
    /\ (\E c \in CycleIds : cyc[c].kind = "check") => scheduledTask
    /\ mainPc = "running" => scheduledTask
    /\ (scheduledTask /\ Quiet) => ENABLED Tick(TRUE)

\* a scheduled cycle started by the tick after a failed scheduled cycle
C8_Witness ==
    \E d, c \in CycleIds :
       /\ FollowedBy(d, c)
       /\ cyc[d].kind = "check" /\ cyc[d].outcome = "failed"
       /\ cyc[d].caller = "caught"
       /\ cyc[c].kind = "check" /\ cyc[c].pc = "fetch"

----------------------------------------------------------------------------
(* Properties of overlapping invocations, checked under Spec *)

\* C9: nothing serializes cycles: a tick starts a cycle whatever is in
\* flight (as long as the model can follow one more), a cycle reads the stored hash and starts its broadcast without
\* waiting for another cycle, and it decides to notify on the hash it read
\* alone; so two overlapping cycles with the same response can both read
\* the old hash and both broadcast.
C9_CyclesNotSerialized ==
    /\ (scheduledTask /\ InFlight < MaxInFlight
                      /\ \E c \in CycleIds : ~Active(c)) => ENABLED Tick(FALSE)
    /\ \A c \in CycleIds :
          /\ cyc[c].pc = "getHash" => ENABLED GetLastHash(c, FALSE)
          /\ cyc[c].pc = "getSubs" =>
                ENABLED (\E outs \in [1..NumRecipients -> SendOutcomes] :
                            Broadcast(c, outs))
          /\ (cyc[c].kind = "check" /\ cyc[c].pc = "getSubs") =>
                \/ cyc[c].lastHash = Null
                \/ cyc[c].lastHash # cyc[c].hash

\* two scheduled cycles in flight that got the same response and have both
\* broadcast it, neither having stored its hash yet
C9_Witness ==
    \E c, d \in CycleIds :
       /\ c # d
       /\ cyc[c].kind = "check" /\ cyc[d].kind = "check"
       /\ cyc[c].pc \in {"persistLoad", "persistSave"}
       /\ cyc[d].pc \in {"persistLoad", "persistSave"}
       /\ cyc[c].broadcast /\ cyc[d].broadcast
       /\ cyc[c].events = cyc[d].events
       /\ LoadState(file).lastMessageHash # cyc[c].hash

\* C10: a save writes the whole snapshot its operation loaded, with that
\* operation's change only, whatever was stored in between; so when two
\* operations both load before either saves, the later save drops the
\* change of the earlier one, which had reported success.
C10_SaveWritesLoadedSnapshot ==
    [][file' # file =>
         \/ \E o \in CmdIds :
               /\ cmds[o].pc = "saving" /\ cmds'[o].pc = "reply"
               /\ cmds'[o].result = "true"
               /\ file' = JsonFile(IF cmds[o].kind = "add"
                                   THEN WithSubscriber(cmds[o].state, cmds[o].chatId)
                                   ELSE WithoutSubscriber(cmds[o].state, cmds[o].chatId))
         \/ \E c \in CycleIds :
               /\ cyc[c].pc = "persistSave"
               /\ cyc[c].state.lastMessageHash = cyc[c].hash
               /\ file' = JsonFile(cyc[c].state)]_vars

\* a subscribe that loaded before a cycle stored its hash and saved after
\* it: it reports success and the file holds no hash any more
C10_Witness ==
    \E o \in CmdIds :
       /\ cmds[o].pc = "reply" /\ cmds[o].result = "true"
       /\ cmds[o].kind = "add"
       /\ cmds[o].lost = "hash"
       /\ LoadState(file).lastMessageHash = Null
       /\ Includes(LoadState(file).subscribers, cmds[o].chatId)

\* no chat id occurs twice in s
NoDuplicates(s) == \A i, j \in DOMAIN s : i # j => s[i] # s[j]

\* C11: whatever addSubscriber, removeSubscriber and updateLastMessageHash
\* calls have run, and however they interleaved, the stored subscribers list
\* holds no chat id twice (and neither does a snapshot about to be saved).
C11_NoDuplicateSubscribers ==
    /\ NoDuplicates(LoadState(file).subscribers)
    /\ \A o \in CmdIds :
          cmds[o].pc = "saving" =>
             NoDuplicates(SavedBy(LoadState(file), cmds[o].state,
                                  cmds[o].kind, cmds[o].chatId).subscribers)
    /\ \A c \in CycleIds :
          cyc[c].pc = "persistSave" => NoDuplicates(cyc[c].state.subscribers)

\* two overlapping /start handlers of one chat have both saved, and the
\* stored list holds the chat once
C11_Witness ==
    \E o, p \in CmdIds :
       /\ o # p
       /\ cmds[o].pc = "reply" /\ cmds[p].pc = "reply"
       /\ cmds[o].kind = "add" /\ cmds[p].kind = "add"
       /\ cmds[o].result = "true" /\ cmds[p].result = "true"
       /\ cmds[o].chatId = cmds[p].chatId
       /\ Count(LoadState(file).subscribers, cmds[o].chatId) = 1

----------------------------------------------------------------------------
(* Properties of the state store, checked under SpecStore *)

\* the positions of the trace holding a call of op
CallsOf(op) == {i \in DOMAIN trace : trace[i].op = op}

\* C12: for a stored state without id, two successive addSubscriber(id)
\* calls return true and then false, the second writes nothing, and the
\* stored list is then the earlier list with id appended, id in it once.
C12_AddIdempotent ==
    \A i \in CallsOf("add") :
       ( /\ i + 1 \in CallsOf("add")
         /\ trace[i + 1].arg = trace[i].arg
         /\ ~Includes(trace[i].loaded.subscribers, trace[i].arg)
         /\ trace[i].raised = NoError )
       => /\ trace[i].result = "true"
          /\ trace[i + 1].result = "false"
          /\ trace[i + 1].raised = NoError
          /\ trace[i + 1].after = trace[i + 1].before
          /\ trace[i + 1].before = trace[i].after
          /\ LoadState(trace[i + 1].after).subscribers =
               Append(trace[i].loaded.subscribers, trace[i].arg)
          /\ Count(LoadState(trace[i + 1].after).subscribers, trace[i].arg) = 1

\* chat 3 subscribed twice in a row to a stored list of two other chats
C12_Witness ==
    /\ Len(trace) = 2
    /\ trace[1].op = "add" /\ trace[2].op = "add"
    /\ trace[1].arg = 3 /\ trace[2].arg = 3
    /\ Len(trace[1].loaded.subscribers) = 2
    /\ trace[1].result = "true" /\ trace[2].result = "false"

\* C13: removeSubscriber(id) returns true exactly when id was in the stored
\* list; after a true return id is gone, the other subscribers keep their
\* order and hash, check time and event ids are as before; a false return
\* writes nothing.
C13_RemoveFrame ==
    \A i \in CallsOf("remove") :
       LET S == trace[i].loaded.subscribers
           id == trace[i].arg
           new == LoadState(trace[i].after)
       IN  /\ trace[i].loaded = LoadState(trace[i].before)
           /\ trace[i].raised = NoError =>
                 (trace[i].result = "true" <=> Includes(S, id))
           /\ trace[i].result \in {"true", "false", "none"}
           /\ trace[i].result = "none" => trace[i].raised # NoError
           /\ trace[i].result = "true" =>
                 /\ ~Includes(new.subscribers, id)
                 /\ new.subscribers = SelectSeq(S, LAMBDA x : x # id)
                 /\ new.lastMessageHash = trace[i].loaded.lastMessageHash
                 /\ new.lastCheckTime = trace[i].loaded.lastCheckTime
                 /\ new.lastEventIds = trace[i].loaded.lastEventIds
           /\ trace[i].result = "false" =>
                 /\ ~Includes(S, id)
                 /\ trace[i].after = trace[i].before

\* the middle one of three stored chats is removed from a state with a hash
C13_Witness ==
    \E i \in CallsOf("remove") :
       /\ trace[i].result = "true"
       /\ Len(trace[i].loaded.subscribers) = 3
       /\ trace[i].loaded.subscribers[2] = trace[i].arg
       /\ trace[i].loaded.lastMessageHash # Null
       /\ Len(LoadState(trace[i].after).subscribers) = 2

\* C14: loadState never raises and returns the default state when the file
\* is absent, unreadable or not valid JSON; a saveState whose mkdir or write
\* failed raises to its caller, which then does not report success.
C14_LoadNeverRaisesSaveDoes ==
    \A i \in DOMAIN trace :
       /\ trace[i].op = "load" =>
             /\ trace[i].raised = NoError
             /\ trace[i].before.kind \in {"absent", "unreadable", "invalid", "null"}
                   => trace[i].loaded = DEFAULT_STATE
       /\ trace[i].op # "load" =>
             /\ trace[i].fault # "none" =>
                   /\ trace[i].raised # NoError
                   /\ trace[i].result # "true"
                   /\ trace[i].after = trace[i].before
             /\ (trace[i].fault = "none" /\ trace[i].result # "false") =>
                   /\ trace[i].raised = NoError
                   /\ trace[i].after.kind = "json"

\* loadState on text that is no JSON, then an addSubscriber whose write fails
C14_Witness ==
    /\ Len(trace) = 2
    /\ trace[1].op = "load" /\ trace[1].before.kind = "invalid"
    /\ trace[1].loaded = DEFAULT_STATE
    /\ trace[2].op = "add" /\ trace[2].fault = "write"
    /\ trace[2].raised # NoError

----------------------------------------------------------------------------
(* A failed persist, checked under SpecSeq *)

\* what holds after a check cycle d whose save failed, and of the check
\* cycle c that follows it on the same upstream response
FailedPersistRepeats ==
    \A d \in CycleIds :
       (cyc[d].kind = "check" /\ cyc[d].error = SaveError) =>
          /\ cyc[d].broadcast
          /\ ~cyc[d].persisted
          /\ cyc[d].pc \in {"errNotify", "done"}
          /\ cyc[d].pc = "done" =>
                /\ cyc[d].outcome = "failed"
                /\ cyc[d].raised = SaveError
                /\ cyc[d].caller = "caught"
                /\ cyc[d].errNotified \in {"sent", "failed"}
          /\ \A c \in CycleIds :
                ( /\ FollowedBy(d, c)
                  /\ cyc[c].kind = "check"
                  /\ cyc[c].events = cyc[d].events
                  /\ cyc[c].hash # Null )
                => /\ cyc[c].hash = cyc[d].hash
                   /\ cyc[c].pc = "getHash" =>
                         ~ShouldSkip(LoadState(file).lastMessageHash, cyc[c].hash)
                   /\ cyc[c].outcome # "skipped"
                   /\ cyc[c].pc \notin {"getHash", "getSubs"} => cyc[c].broadcast

\* C15: when persisting the new hash fails in a check cycle after its
\* broadcast, the failing save leaves the stored hash as it was, the cycle
\* ends as a failure that raises the save error after an error notification
\* was attempted, and the next check cycle on the same response is not
\* skipped and broadcasts again.
C15_FailedPersistRepeats ==
    [][ /\ \A c \in CycleIds :
              (cyc[c].pc = "persistSave" /\ cyc'[c].pc = "errNotify") =>
                 /\ file' = file
                 /\ cyc'[c].error = SaveError
        /\ FailedPersistRepeats' ]_vars

\* a cycle whose save failed after its broadcast, followed by a cycle on the
\* same events that broadcast again
C15_Witness ==
    \E d, c \in CycleIds :
       /\ FollowedBy(d, c)
       /\ cyc[d].kind = "check" /\ cyc[c].kind = "check"
       /\ cyc[d].error = SaveError /\ cyc[d].broadcast
       /\ cyc[d].raised = SaveError
       /\ cyc[c].events = cyc[d].events
       /\ cyc[c].events # <<>>
       /\ cyc[c].broadcast
       /\ cyc[c].pc = "done" /\ cyc[c].outcome = "notified"

----------------------------------------------------------------------------
(* What a persisting check cycle leaves on disk, checked under SpecSeq *)

\* C20: after a check cycle that broadcasts and persists, the stored
\* lastMessageHash is the cycle's content hash and the stored lastEventIds
\* are the ids of the cycle's events in order.
C20_PersistsHashAndEventIds ==
    [][ \A c \in CycleIds :
           ( /\ cyc[c].kind = "check"
             /\ cyc[c].pc = "persistSave"
             /\ cyc'[c].pc = "done" /\ cyc'[c].persisted )
           => /\ LoadState(file').lastMessageHash = cyc[c].hash
              /\ LoadState(file').lastEventIds = getEventIds(cyc[c].events) ]_vars

----------------------------------------------------------------------------
(* Properties of the response parser, checked under SpecParse *)

\* the first attempt of the call has ended
FirstAttemptDone == rt.active /\ Len(trace) >= 2

\* C16: for every 2xx response body the parser returns a sequence of events
\* and never raises, so no fetch attempt fails or is retried because of the
\* payload.
C16_ParserNeverRaises ==
    rt.active =>
       /\ rt.r.pc # "thrown"
       /\ \A i \in DOMAIN trace : trace[i].ev \notin {"rejected", "onRetry", "delay"}

\* the rows of the document that have six or more cells
QualifyingRows(rows) == SelectSeq(rows, LAMBDA r : Len(r) >= 6)

\* C17: for an HTML payload with the table-shutdowns marker and a tbody,
\* parseHtmlTable yields one event per row of six or more cells and none for
\* a shorter row, in row order, with ids 1..k for the k qualifying rows, and
\* cells 0..5 become type, shutdownType, queueGpv, queueGav, dateStart,
\* dateEnd.
C17_TableRowsToEvents ==
    (rt.active /\ rt.body.kind = "html" /\ rt.body.marker /\ rt.body.tbody = "closed") =>
       LET q == QualifyingRows(rt.body.rows)
           events == parseHtmlTable(rt.body.text)
       IN  /\ Len(events) = Len(q)
           /\ \A k \in DOMAIN q :
                 /\ events[k].id = k
                 /\ events[k].type = q[k][1].text
                 /\ events[k].shutdownType = q[k][2].text
                 /\ events[k].queueGpv = q[k][3].text
                 /\ events[k].queueGav = q[k][4].text
                 /\ events[k].dateStart = q[k][5].text
                 /\ events[k].dateEnd = q[k][6].text
           /\ (rt.r.pc = "returned" /\ rt.body.alert # "both") => rt.value = events

\* a table of a six-cell row, a four-cell row and a seven-cell row was
\* parsed into the two events 1 and 2
C17_Witness ==
    /\ rt.active /\ rt.r.pc = "returned"
    /\ rt.body.kind = "html" /\ rt.body.marker /\ rt.body.tbody = "closed"
    /\ Len(rt.body.rows) = 3
    /\ Len(rt.body.rows[1]) = 6 /\ Len(rt.body.rows[2]) = 4 /\ Len(rt.body.rows[3]) = 7
    /\ Len(rt.value) = 2
    /\ rt.value[1].id = 1 /\ rt.value[2].id = 2
    /\ rt.value[2].shutdownType = Emergency

\* events is one normalized event per element of elems, in order
OnePerElement(events, elems) ==
    /\ Len(events) = Len(elems)
    /\ \A i \in DOMAIN elems : events[i] = normalizeEvent(elems[i])

\* C18: a payload not classified as HTML that parses as JSON yields one
\* normalized event per element for an array and for an object with a data
\* array, the empty sequence for an object with a true success flag and no
\* data and for every other JSON value; an HTML payload with the info-alert
\* class and the no-registered-outage text yields the empty sequence.
C18_JsonDispatch ==
    FirstAttemptDone =>
       /\ (rt.body.kind = "json" /\ ~isHtmlResponse(rt.body.text)) =>
             /\ trace[2].ev = "resolved"
             /\ IF rt.body.json.t = "arr"
                THEN OnePerElement(trace[2].value, rt.body.json.v)
                ELSE IF rt.body.json.t = "obj" /\ Prop(rt.body.json, "data").t = "arr"
                THEN OnePerElement(trace[2].value, Prop(rt.body.json, "data").v)
                ELSE trace[2].value = <<>>
       /\ (rt.body.kind = "html" /\ rt.body.alert = "both") =>
             /\ trace[2].ev = "resolved"
             /\ trace[2].value = <<>>

\* C19: every event the parser produces, from the HTML table and from JSON
\* alike, has the emergency status when its shutdownType is the emergency
\* marker and the planned status otherwise.
C19_StatusDerived ==
    (rt.active /\ rt.r.pc = "returned") =>
       \A i \in DOMAIN rt.value :
          rt.value[i].status =
             IF rt.value[i].shutdownType = Emergency THEN Emergency ELSE Planned

----------------------------------------------------------------------------
(* The skip path and the failed fetch, checked under SpecSeq *)

\* C21: a checkAndNotify cycle that takes the skip path sends nothing and
\* writes nothing: no step of it, from the tick to the return, changes the
\* stored state, so lastMessageHash, lastCheckTime, lastEventIds and
\* subscribers are as before and lastCheckTime is not the time of the check.
C21_SkipTouchesNothing ==
    [][ \A c \in CycleIds :
           ( /\ cyc'[c].kind = "check"
             /\ cyc'[c] # cyc[c]
             /\ cyc'[c].pc \in {"fetch", "getHash"}
                \/ (cyc'[c].pc = "done" /\ cyc'[c].outcome = "skipped"
                                        /\ cyc[c].pc # "done") )
           => /\ file' = file
              /\ LoadState(file)' = LoadState(file)
              /\ ~cyc'[c].broadcast
              /\ cyc'[c].sends = <<>>
              /\ cyc'[c].successful = 0 /\ cyc'[c].failed = 0
              /\ ~cyc'[c].persisted
              /\ cyc'[c].errNotified = "none"
              /\ cyc'[c].errSend = IdleR
              /\ cyc'[c].pc = "done" =>
                    /\ cyc[c].pc = "getHash"
                    /\ cyc'[c].raised = NoError
                    /\ LoadState(file').lastMessageHash = cyc'[c].hash ]_vars

\* a cycle skipped at a time later than the stored check time
C21_Witness ==
    \E c \in CycleIds :
       /\ cyc[c].kind = "check" /\ cyc[c].pc = "done"
       /\ cyc[c].outcome = "skipped"
       /\ LoadState(file).lastCheckTime # Null
       /\ LoadState(file).lastCheckTime < now
       /\ LoadState(file).lastMessageHash = cyc[c].hash
       /\ Len(LoadState(file).subscribers) = 2

\* what holds of a check cycle d whose broadcast reached nobody, and of the
\* check cycle c that follows it on the same upstream response
UndeliveredIsPersisted ==
    \A d \in CycleIds :
       (cyc[d].kind = "check" /\ cyc[d].undelivered) =>
          /\ cyc[d].broadcast
          /\ cyc[d].pc \in {"persistLoad", "persistSave", "errNotify", "done"}
          /\ cyc[d].error \in {NoError, SaveError}
          /\ (cyc[d].pc = "done" /\ cyc[d].error = NoError) =>
                /\ cyc[d].outcome = "notified"
                /\ cyc[d].persisted
                /\ cyc[d].raised = NoError
                /\ cyc[d].caller = "returned"
          /\ \A c \in CycleIds :
                ( /\ FollowedBy(d, c)
                  /\ cyc[d].outcome = "notified"
                  /\ cyc[c].kind = "check"
                  /\ cyc[c].events = cyc[d].events
                  /\ cyc[c].hash # Null
                  /\ cyc[c].pc # "getHash" )
                => /\ cyc[c].pc = "done"
                   /\ cyc[c].outcome = "skipped"
                   /\ ~cyc[c].broadcast

\* C22: in a check cycle the new hash is persisted once the broadcast call
\* returns, whatever the delivery outcomes: the broadcast is followed by
\* updateLastMessageHash also when every send failed, the save stores the
\* cycle's hash, the cycle completes as a success, and the next check cycle
\* on the same response skips without sending.
C22_UndeliveredIsPersisted ==
    [][ /\ \A c \in CycleIds :
              /\ (cyc[c].pc = "sending" /\ cyc'[c].pc # "sending") =>
                    /\ cyc'[c].pc = "persistLoad"
                    /\ cyc'[c].error = NoError
              /\ (cyc[c].pc = "persistSave" /\ cyc'[c].pc = "done") =>
                    /\ cyc'[c].outcome = "notified"
                    /\ LoadState(file').lastMessageHash = cyc[c].hash
        /\ UndeliveredIsPersisted' ]_vars

\* a cycle whose sends all failed completed as notified, and the next cycle
\* on the same events skipped
C22_Witness ==
    \E d, c \in CycleIds :
       /\ FollowedBy(d, c)
       /\ cyc[d].kind = "check" /\ cyc[c].kind = "check"
       /\ cyc[d].undelivered /\ cyc[d].outcome = "notified" /\ cyc[d].persisted
       /\ cyc[c].events = cyc[d].events
       /\ cyc[c].events # <<>>
       /\ cyc[c].pc = "done" /\ cyc[c].outcome = "skipped"

\* what holds of a check cycle whose fetch failed on every attempt
FailedFetchOnlyNotifies ==
    \A c \in CycleIds :
       /\ (cyc[c].kind = "check" /\ cyc[c].fetch.pc = "thrown") =>
             /\ cyc[c].pc = "errNotify"
             /\ cyc[c].fetch.attempt = RETRY_ATTEMPTS + 1
             /\ cyc[c].error \in FetchErrors
       /\ (cyc[c].kind = "check" /\ cyc[c].error \in FetchErrors) =>
             /\ cyc[c].pc \in {"errNotify", "done"}
             /\ ~cyc[c].broadcast
             /\ cyc[c].sends = <<>>
             /\ cyc[c].successful = 0 /\ cyc[c].failed = 0
             /\ ~cyc[c].persisted
             /\ cyc[c].events = <<>> /\ cyc[c].hash = Null
             /\ cyc[c].errTo = config.TELEGRAM_CHAT_ID
             /\ cyc[c].pc = "errNotify" => cyc[c].errSend.pc \in {"fn", "delay"}
             /\ cyc[c].pc = "done" =>
                   /\ cyc[c].outcome = "failed"
                   /\ cyc[c].errNotified \in {"sent", "failed"}
                   /\ cyc[c].raised = cyc[c].error

\* C23: when a check cycle's fetch fails on every retry attempt, the cycle
\* broadcasts nothing and writes nothing to the state store: no step of it
\* changes the stored state, and the only send it starts is the error
\* notification to the default chat.
C23_FailedFetchOnlyNotifies ==
    [][ /\ \A c \in CycleIds :
              ( /\ cyc'[c].kind = "check"
                /\ cyc'[c] # cyc[c]
                /\ cyc[c].pc = "fetch" \/ cyc'[c].pc = "fetch"
                   \/ cyc'[c].error \in FetchErrors )
              => file' = file
        /\ FailedFetchOnlyNotifies' ]_vars

\* a cycle whose fetch failed RETRY_ATTEMPTS times ended as failed with the
\* error notification sent, on a stored state with a hash and subscribers
C23_Witness ==
    \E c \in CycleIds :
       /\ cyc[c].kind = "check" /\ cyc[c].pc = "done"
       /\ cyc[c].error \in FetchErrors
       /\ cyc[c].outcome = "failed" /\ cyc[c].errNotified = "sent"
       /\ LoadState(file).lastMessageHash # Null
       /\ Len(LoadState(file).subscribers) = 2

----------------------------------------------------------------------------
(* The forced startup cycle, checked under Spec *)

\* C24: with --check-now the forced cycle has finished before polling and
\* the scheduler are started, so while it is in flight main waits for it and
\* no scheduled cycle and no command handler is in flight; once the process
\* runs, a tick or a command can still start while a scheduled cycle is in
\* flight.
C24_ForcedCycleRunsAlone ==
    /\ \A c \in CycleIds :
          (cyc[c].kind = "force" /\ Active(c)) =>
             /\ mainPc = "forcing"
             /\ ~pollingEnabled /\ ~scheduledTask
             /\ \A d \in CycleIds \ {c} : ~Active(d)
             /\ \A o \in CmdIds : ~CmdActive(o)
    /\ mainPc = "forcing" => \E c \in CycleIds : cyc[c].kind = "force" /\ Active(c)
    /\ (pollingEnabled \/ scheduledTask) =>
          /\ mainPc = "running"
          /\ pollingEnabled /\ scheduledTask
    /\ \A c \in CycleIds : Active(c) /\ mainPc # "forcing" => cyc[c].kind = "check"
    /\ ( /\ \E c \in CycleIds : cyc[c].kind = "check" /\ Active(c)
         /\ InFlight < MaxInFlight )
       => /\ (\E d \in CycleIds : ~Active(d)) => ENABLED Tick(FALSE)
          /\ (\E o \in CmdIds : cmds[o].pc = "idle") =>
                ENABLED (\E o \in CmdIds, kind \in {"add", "remove"},
                            chatId \in ChatIds :
                            NextCmd(o) /\ CmdLoad(o, kind, chatId))

\* the forced cycle is about to save while main still waits for it
C24_Witness ==
    \E c \in CycleIds :
       /\ cyc[c].kind = "force" /\ cyc[c].pc = "persistSave"
       /\ cyc[c].broadcast
       /\ mainPc = "forcing"
       /\ ~pollingEnabled /\ ~scheduledTask

----------------------------------------------------------------------------
(* Termination of a check cycle, checked under SpecSeqFair *)

\* a withRetry in flight is at one of its first `attempts` attempts
WithinAttempts(r, attempts) ==
    /\ r.pc \in {"fn", "delay"} => r.attempt \in 1..attempts
    /\ r.pc = "thrown" => r.attempt = attempts + 1

\* the retry loops of cycle c are within their bounds, and a finished cycle
\* has exactly one of the three outcomes
CycleBounded(c) ==
    /\ WithinAttempts(cyc[c].fetch, RETRY_ATTEMPTS)
    /\ WithinAttempts(cyc[c].errSend, RETRY_ATTEMPTS)
    /\ \A i \in DOMAIN cyc[c].sends :
          WithinAttempts(cyc[c].sends[i].r, RETRY_ATTEMPTS)
    /\ cyc[c].pc = "done" =>
          \/ /\ cyc[c].outcome = "skipped"
             /\ ~cyc[c].broadcast /\ ~cyc[c].persisted
             /\ cyc[c].raised = NoError
          \/ /\ cyc[c].outcome = "notified"
             /\ cyc[c].broadcast /\ cyc[c].persisted
             /\ cyc[c].raised = NoError
          \/ /\ cyc[c].outcome = "failed"
             /\ ~cyc[c].persisted
             /\ cyc[c].raised # NoError

\* C25: provided each fetch, send and file operation eventually returns or
\* fails, every check cycle ends, as skipped, as broadcast and persisted or
\* as failed and raised, and on the way no fetch, no send to a recipient and
\* no error notification is attempted more than RETRY_ATTEMPTS times.
C25_CycleTerminates ==
    /\ [](\A c \in CycleIds : cyc[c].kind = "check" => CycleBounded(c))
    /\ \A c \in CycleIds :
          (cyc[c].kind = "check" /\ Active(c)) ~> (cyc[c].pc = "done")

\* a cycle that used up the attempts of its fetch and then those of its
\* error notification
C25_Witness ==
    \E c \in CycleIds :
       /\ cyc[c].kind = "check" /\ cyc[c].pc = "done"
       /\ cyc[c].outcome = "failed"
       /\ cyc[c].error \in FetchErrors
       /\ cyc[c].errNotified = "failed"

====
